---- MODULE Spec2Model ----
(***************************************************************************)
(* Booking-data extraction and record matching of the Invoice Automation   *)
(* Hub (src/invoice_processor_final.py).                                   *)
(*                                                                         *)
(* Text is modelled as a sequence of one-character strings, so that the    *)
(* cleaning, validation and normalisation functions are computed           *)
(* character by character as the Python code computes them.                *)
(***************************************************************************)
EXTENDS Integers, Sequences, FiniteSets, TLC

(***************************************************************************)
(* Bounds of the model.                                                    *)
(***************************************************************************)
\* tables per HTML body
MaxTables == 2
\* records handed to one matcher run
MaxRecords == 2
\* consecutive matcher runs over the same persisted table
MaxRuns == 2

(***************************************************************************)
(* State.                                                                  *)
(***************************************************************************)
VARIABLES
    \* ---- extract_booking_code_from_email ----
    msg,              \* the arguments of the call
    pc,               \* position in the cascade
    table_entries,    \* result of parse_html_tables_for_booking_data
    entry_idx,        \* index of the table entry the loop of line 388 is at
    booking_code,     \* local booking_code (None until a stage finds one)
    booking_details,  \* local dict booking_details
    stage_log,        \* the stages entered so far, in order
    stage1_details    \* booking_details as stage 1 left it

evars == <<msg, pc, table_entries, entry_idx, booking_code, booking_details,
           stage_log, stage1_details>>

VARIABLES
    \* ---- the record matcher ----
    file,             \* the sheet at MATCHING_EXCEL_FILE_PATH
    entries,          \* extracted_data_list, the same in every run
    field_to_column,  \* the mapped matching fields
    mpc,              \* "idle" between runs, "loop" inside one
    run,              \* number of runs started
    df,               \* the DataFrame of the run (<<>> outside a run)
    idx,              \* position of the loop of line 2309
    rows_updated,
    rows_skipped,
    ret,              \* value returned by the last run
    \* history kept for the properties
    file0,            \* the sheet before the first run
    save_result,      \* how the last run ended: nothing to save, saved, locked, failed
    prev_result,      \* save_result of the run before the current one
    matched,          \* rows matched so far in the run, over all records
    last,             \* the record last processed and what happened to it
    faulted           \* an exception was raised in some run so far

mvars == <<file, entries, field_to_column, mpc, run, df, idx, rows_updated,
           rows_skipped, ret, file0, save_result, prev_result, matched, last,
           faulted>>

\* one call of a function of the module on its own: the function with its
\* arguments, and what it returned
VARIABLES
    call,
    result
pvars == <<call, result>>

\* process_invoices (lines 1343-1658)
VARIABLES
    env,                 \* the configuration and the services of the run
    inbox,               \* the unread messages
    ppc,                 \* "start", "connect", "emails", "excel", "match", "done",
                         \* "returned", "idle"
    mail_connected,      \* the mailbox was connected
    email_i,             \* index of the next message
    uploaded,            \* the PDFs handed to upload_pdf_to_drive
    seen,                \* the messages marked read by the run (\Seen)
    all_invoice_data,    \* the list of line 1442
    master,              \* the master sheet on the drive
    master0,             \* the master sheet before the run
    excel_result,        \* "none", "written", "no_rows" or "failed"
    extracted_data_list  \* the records of lines 2212-2276
gvars == <<env, inbox, ppc, mail_connected, email_i, uploaded, seen, all_invoice_data,
           master, master0, excel_result, extracted_data_list>>

vars == <<evars, mvars, pvars, gvars>>

(***************************************************************************)
(* Character classes and the string primitives of Python used by the code. *)
(***************************************************************************)
Digits == {"0","1","2","3","4","5","6","7","8","9"}
UpperSeq == <<"A","B","C","D","E","F","G","H","I","J","K","L","M",
              "N","O","P","Q","R","S","T","U","V","W","X","Y","Z">>
LowerSeq == <<"a","b","c","d","e","f","g","h","i","j","k","l","m",
              "n","o","p","q","r","s","t","u","v","w","x","y","z">>
LowerLetters == {LowerSeq[i] : i \in 1..26}
\* characters matched by \s that occur in the modelled inputs
WS == {" ", "\t", "\n"}

UpperLetters == {UpperSeq[i] : i \in 1..26}
LowerOf == [c \in UpperLetters |-> LowerSeq[CHOOSE i \in 1..26 : UpperSeq[i] = c]]
LowerChar(c) == IF c \in UpperLetters THEN LowerOf[c] ELSE c

\* str.lower()
Lower(s) == [i \in 1..Len(s) |-> LowerChar(s[i])]

\* str.lstrip(chars) / re.sub('^[chars]+', '', s)
RECURSIVE LStrip(_, _)
LStrip(s, cs) ==
    IF s # <<>> /\ Head(s) \in cs THEN LStrip(Tail(s), cs) ELSE s

\* str.rstrip(chars) / re.sub('[chars]+$', '', s)
RECURSIVE RStrip(_, _)
RStrip(s, cs) ==
    IF s # <<>> /\ s[Len(s)] \in cs THEN RStrip(SubSeq(s, 1, Len(s) - 1), cs) ELSE s

\* str.strip(chars)
StripChars(s, cs) == RStrip(LStrip(s, cs), cs)

\* str.strip()
Strip(s) == StripChars(s, WS)

\* str.replace(c, '') for every c of cs / re.sub('[cs]', '', s)
RemoveChars(s, cs) == SelectSeq(s, LAMBDA c : c \notin cs)

\* str.replace(c, d) for every single character c of cs
ReplaceChars(s, cs, d) == [i \in 1..Len(s) |-> IF s[i] \in cs THEN d ELSE s[i]]

\* sub in s
Contains(sub, s) ==
    \E i \in 0..(Len(s) - Len(sub)) : SubSeq(s, i + 1, i + Len(sub)) = sub

\* s.startswith(p)
StartsWith(s, p) == Len(s) >= Len(p) /\ SubSeq(s, 1, Len(p)) = p

\* re.sub(r'\s+', ' ', s)
RECURSIVE CollapseWS(_)
CollapseWS(s) ==
    IF s = <<>> THEN <<>>
    ELSE IF Head(s) \in WS
         THEN <<" ">> \o CollapseWS(LStrip(s, WS))
         ELSE <<Head(s)>> \o CollapseWS(Tail(s))

\* s.replace('  ', ' '): one left-to-right pass over non-overlapping pairs
RECURSIVE ReplaceDoubleSpace(_)
ReplaceDoubleSpace(s) ==
    IF Len(s) < 2 THEN s
    ELSE IF s[1] = " " /\ s[2] = " "
         THEN <<" ">> \o ReplaceDoubleSpace(SubSeq(s, 3, Len(s)))
         ELSE <<Head(s)>> \o ReplaceDoubleSpace(Tail(s))

AllDigits(s) == \A i \in 1..Len(s) : s[i] \in Digits

\* re.search(r'(\d{7})', s): the leftmost run of seven digits, <<>> when none
HasDigitRun7(s) == \E i \in 1..(Len(s) - 6) : AllDigits(SubSeq(s, i, i + 6))
FirstDigitRun7(s) ==
    IF HasDigitRun7(s)
    THEN LET i == CHOOSE k \in 1..(Len(s) - 6) :
                      /\ AllDigits(SubSeq(s, k, k + 6))
                      /\ \A j \in 1..(k - 1) : ~AllDigits(SubSeq(s, j, j + 6))
         IN  SubSeq(s, i, i + 6)
    ELSE <<>>

\* the quote characters of the strip call of line 361: double quote, single
\* quote and backtick, each written here as a two-letter token
QuoteChars == {"DQ", "SQ", "BQ"}

\* Python None / a missing value
None == <<>>
\* an empty dict
EmptyDict == [k \in {} |-> <<>>]
\* dict.get(key) with the default None
Get(d, key) == IF key \in DOMAIN d THEN d[key] ELSE None
\* d[key] = value
Put(d, key, value) == [k \in DOMAIN d \cup {key} |-> IF k = key THEN value ELSE d[k]]

(***************************************************************************)
(* Words the header rules look for.                                        *)
(***************************************************************************)
W ==
    [ booking |-> <<"b","o","o","k","i","n","g">>,
      reservation |-> <<"r","e","s","e","r","v","a","t","i","o","n">>,
      confirmation |-> <<"c","o","n","f","i","r","m","a","t","i","o","n">>,
      ref |-> <<"r","e","f">>,
      code |-> <<"c","o","d","e">>,
      id |-> <<"i","d">>,
      number |-> <<"n","u","m","b","e","r">>,
      no |-> <<"n","o">>,
      guest |-> <<"g","u","e","s","t">>,
      name |-> <<"n","a","m","e">>,
      client |-> <<"c","l","i","e","n","t">>,
      customer |-> <<"c","u","s","t","o","m","e","r">>,
      hotel |-> <<"h","o","t","e","l">>,
      property |-> <<"p","r","o","p","e","r","t","y">>,
      venue |-> <<"v","e","n","u","e">>,
      check |-> <<"c","h","e","c","k">>,
      in |-> <<"i","n">>,
      arrival |-> <<"a","r","r","i","v","a","l">>,
      from |-> <<"f","r","o","m">>,
      start |-> <<"s","t","a","r","t">>,
      arr |-> <<"a","r","r">>,
      out |-> <<"o","u","t">>,
      departure |-> <<"d","e","p","a","r","t","u","r","e">>,
      to |-> <<"t","o">>,
      end |-> <<"e","n","d">>,
      dep |-> <<"d","e","p">>,
      count |-> <<"c","o","u","n","t">>,
      qty |-> <<"q","t","y">>,
      pax |-> <<"p","a","x">>,
      amount |-> <<"a","m","o","u","n","t">>,
      total |-> <<"t","o","t","a","l">>,
      grand_total |-> <<"g","r","a","n","d"," ","t","o","t","a","l">>,
      balance |-> <<"b","a","l","a","n","c","e">> ]

AnyIn(words, s) == \E w \in words : Contains(w, s)

(***************************************************************************)
(* normalize_table_header: header text -> field key, None when no rule     *)
(* matches.  Field keys are TLA+ strings.                                  *)
(***************************************************************************)
HeaderText(header_text) ==
    LET n1 == Lower(Strip(CollapseWS(header_text)))
        n2 == SelectSeq(n1, LAMBDA c : c \in LowerLetters \cup Digits \cup WS \cup {"_", "-"})
    IN  ReplaceDoubleSpace(n2)

normalize_table_header(header_text) ==
    LET normalized == HeaderText(header_text) IN
    IF header_text = <<>> \/ normalized = <<>> THEN "None"
    ELSE IF /\ \/ AnyIn({W.booking, W.reservation, W.confirmation}, normalized)
               \/ StartsWith(normalized, W.ref)
            /\ AnyIn({W.code, W.id, W.number, W.no, W.ref, W.confirmation, W.booking}, normalized)
         THEN "booking_code"
    ELSE IF Contains(W.guest, normalized) /\ Contains(W.name, normalized) THEN "guest_name"
    ELSE IF Contains(W.client, normalized) /\ Contains(W.name, normalized) THEN "client_name"
    ELSE IF Contains(W.customer, normalized) /\ Contains(W.name, normalized) THEN "guest_name"
    ELSE IF /\ AnyIn({W.hotel, W.property, W.venue}, normalized)
            /\ Contains(W.name, normalized)
         THEN "property_name"
    ELSE IF /\ Contains(W.check, normalized)
            /\ AnyIn({W.in, W.arrival, W.from, W.start, W.arr}, normalized)
         THEN "check_in_date"
    ELSE IF /\ Contains(W.check, normalized)
            /\ AnyIn({W.out, W.departure, W.to, W.end, W.dep}, normalized)
         THEN "check_out_date"
    ELSE IF Contains(W.arrival, normalized) THEN "check_in_date"
    ELSE IF Contains(W.departure, normalized) THEN "check_out_date"
    ELSE IF /\ Contains(W.guest, normalized)
            /\ AnyIn({W.count, W.qty, W.pax, W.number}, normalized)
         THEN "guest_count"
    ELSE IF AnyIn({W.amount, W.total, W.grand_total, W.balance}, normalized) THEN "total_amount"
    ELSE "None"

(***************************************************************************)
(* parse_html_tables_for_booking_data.  A table is the sequence of its     *)
(* <tr> rows, a row the sequence of the texts of its cells as              *)
(* cell.get_text(strip=True) returns them (possibly empty).                *)
(***************************************************************************)
\* the non-empty cell texts of a row, in order (lines 295-300)
CellTexts(row) == SelectSeq([i \in 1..Len(row) |-> Strip(row[i])], LAMBDA t : t # <<>>)

\* rows that keep at least one text (lines 293-302)
TextRows(table) ==
    SelectSeq([i \in 1..Len(table) |-> CellTexts(table[i])], LAMBDA r : r # <<>>)

\* one data row under the header map (lines 313-321)
RECURSIVE ColumnEntry(_, _, _, _)
ColumnEntry(header_map, data_row, col_idx, entry) ==
    IF col_idx > Len(data_row) THEN entry
    ELSE LET key == IF col_idx <= Len(header_map) THEN header_map[col_idx] ELSE "None"
             next == IF /\ key # "None"
                        /\ (key \notin DOMAIN entry \/ entry[key] = <<>>)
                     THEN Put(entry, key, Strip(data_row[col_idx]))
                     ELSE entry
         IN  ColumnEntry(header_map, data_row, col_idx + 1, next)

RelevantKeys == {"booking_code", "guest_name", "client_name", "check_in_date", "check_out_date"}

\* line 322
IsRelevant(entry) == \E k \in RelevantKeys : Get(entry, k) # <<>>

\* lines 312-326
RECURSIVE ColumnEntries(_, _, _)
ColumnEntries(header_map, rows, r) ==
    IF r > Len(rows) THEN <<>>
    ELSE LET entry == ColumnEntry(header_map, rows[r], 1, EmptyDict)
         IN  (IF IsRelevant(entry) THEN <<entry>> ELSE <<>>)
                 \o ColumnEntries(header_map, rows, r + 1)

\* lines 330-338 with the first value of a key kept
RECURSIVE KvEntry_FirstWins(_, _, _)
KvEntry_FirstWins(rows, r, kv_entry) ==
    IF r > Len(rows) THEN kv_entry
    ELSE LET row == rows[r]
             key == IF Len(row) = 2 THEN normalize_table_header(row[1]) ELSE "None"
             next == IF key # "None" /\ Strip(row[2]) # <<>> /\ key \notin DOMAIN kv_entry
                     THEN Put(kv_entry, key, Strip(row[2]))
                     ELSE kv_entry
         IN  KvEntry_FirstWins(rows, r + 1, next)

\* lines 330-338
RECURSIVE KvEntry(_, _, _)
KvEntry(rows, r, kv_entry) ==
    IF r > Len(rows) THEN kv_entry
    ELSE LET row == rows[r]
             key == IF Len(row) = 2 THEN normalize_table_header(row[1]) ELSE "None"
             next == IF key # "None" /\ Strip(row[2]) # <<>>
                     THEN Put(kv_entry, key, Strip(row[2]))
                     ELSE kv_entry
         IN  KvEntry(rows, r + 1, next)

\* lines 292-343 for one table
TableEntries(table) ==
    LET rows == TextRows(table) IN
    IF rows = <<>> THEN <<>>
    ELSE LET header_map == [i \in 1..Len(rows[1]) |-> normalize_table_header(rows[1][i])]
             useful_headers == SelectSeq(header_map, LAMBDA h : h # "None")
         IN  IF useful_headers # <<>> /\ Len(rows) > 1
             THEN ColumnEntries(header_map, rows, 2)
             ELSE IF useful_headers # <<>> THEN <<>>
             ELSE LET kv_entry == KvEntry(rows, 1, EmptyDict)
                  IN  IF DOMAIN kv_entry # {} THEN <<kv_entry>> ELSE <<>>

RECURSIVE AllTableEntries(_, _)
AllTableEntries(tables, t) ==
    IF t > Len(tables) THEN <<>>
    ELSE TableEntries(tables[t]) \o AllTableEntries(tables, t + 1)

\* html_body gives the tables of the document, whether the BeautifulSoup
\* constructor raises on it (unparsable, lines 283-287) and the table, if any,
\* during whose processing an exception is raised (fault, 0 for none); bs4
\* tells whether the BeautifulSoup import succeeded (lines 24-27, 279-282).
\* The loop of lines 291-343 has no handler: an exception raised in it leaves
\* the function.
ParseRaises(html_body, bs4) ==
    /\ html_body.present /\ bs4 /\ ~html_body.unparsable
    /\ html_body.fault \in 1..Len(html_body.tables)

\* the list returned when no exception leaves the function
parse_html_tables_for_booking_data(html_body, bs4) ==
    IF ~bs4 \/ html_body.unparsable THEN <<>> ELSE AllTableEntries(html_body.tables, 1)

(***************************************************************************)
(* Helpers local to extract_booking_code_from_email.                       *)
(***************************************************************************)
\* store_detail (lines 351-355) without the first-writer guard
store_detail_overwrite(details, key, value) ==
    LET value_clean == Strip(value) IN
    IF value # <<>> /\ value_clean # <<>>
    THEN Put(details, key, value_clean)
    ELSE details

\* store_detail (lines 351-355): the updated booking_details
store_detail(details, key, value) ==
    LET value_clean == Strip(value) IN
    IF value # <<>> /\ value_clean # <<>> /\ key \notin DOMAIN details
    THEN Put(details, key, value_clean)
    ELSE details

\* clean_booking_value (lines 357-367)
clean_booking_value(value) ==
    LET v1 == Strip(value)
        v2 == LStrip(v1, {"-", ":", ">", "#", "~"} \cup WS)
        v3 == RStrip(v2, {",", ".", ";"} \cup WS)
        v4 == StripChars(v3, QuoteChars)
        v5 == RemoveChars(v4, {" "})
        v6 == Strip(v5)
    IN  IF HasDigitRun7(v6) THEN FirstDigitRun7(v6) ELSE v6

\* is_valid_booking_code (lines 369-377)
is_valid_booking_code(value) ==
    LET digits == SelectSeq(value, LAMBDA c : c \in Digits) IN
    /\ value # <<>>
    /\ digits # <<>>
    /\ Len(digits) = 7

\* the first candidate of a list of regex captures that cleans to a valid
\* code, None when there is none (the loops of lines 435-442 and 538-546)
RECURSIVE FirstValidCandidate(_)
FirstValidCandidate(captures) ==
    IF captures = <<>> THEN None
    ELSE LET candidate == clean_booking_value(Head(captures))
         IN  IF is_valid_booking_code(candidate) THEN candidate
             ELSE FirstValidCandidate(Tail(captures))

(***************************************************************************)
(* Sample texts.                                                           *)
(***************************************************************************)
\* the texts of the inputs: cell texts, header texts, names, dates
Txt ==
    [ c1234567 |-> <<"1","2","3","4","5","6","7">>,
      c7654321 |-> <<"7","6","5","4","3","2","1">>,
      c123d4567 |-> <<"1","2","3","-","4","5","6","7">>,
      padded |-> <<"#","1","2","3","4","5","6","7",".">>,
      c12345 |-> <<"1","2","3","4","5">>,
      c5550001 |-> <<"5","5","5","0","0","0","1">>,
      c9876543 |-> <<"9","8","7","6","5","4","3">>,
      c4444444 |-> <<"4","4","4","4","4","4","4">>,
      c987d6543 |-> <<"9","8","7","-","6","5","4","3">>,
      reference |-> <<"r","e","f","e","r","e","n","c","e">>,
      sp7654321 |-> <<" ","7","6","5","4","3","2","1">>,
      AshaRao |-> <<"A","s","h","a"," ","R","a","o">>,
      RaviK |-> <<"R","a","v","i"," ","K">>,
      Taj |-> <<"T","a","j"," ","P","a","l","a","c","e">>,
      d1 |-> <<"1","2","/","0","5","/","2","0","2","5">>,
      d2 |-> <<"1","4","/","0","5","/","2","0","2","5">>,
      Details |-> <<"D","e","t","a","i","l","s">>,
      hBookingCode |-> <<"B","o","o","k","i","n","g"," ","C","o","d","e">>,
      hGuestName |-> <<"G","u","e","s","t"," ","N","a","m","e">>,
      hClientName |-> <<"C","l","i","e","n","t"," ","N","a","m","e">>,
      hHotelName |-> <<"H","o","t","e","l"," ","N","a","m","e">>,
      hCheckIn |-> <<"C","h","e","c","k","-","I","n"," ","D","a","t","e">>,
      hCheckOut |-> <<"C","h","e","c","k","-","O","u","t"," ","D","a","t","e">>,
      received_lc |-> <<"r","e","c","e","i","v","e","d">>,
      JohnSmith |-> <<"J","o","h","n"," ","S","m","i","t","h">>,
      john_smith |-> <<"j","o","h","n"," ","s","m","i","t","h">>,
      Smith |-> <<"S","m","i","t","h">>,
      SeaView |-> <<"S","e","a"," ","V","i","e","w">>,
      OceanPearl |-> <<"O","c","e","a","n"," ","P","e","a","r","l">>,
      TajPalaceHotel |-> <<"T","a","j"," ","P","a","l","a","c","e"," ","H","o","t","e","l">>,
      c1234567p0 |-> <<"1","2","3","4","5","6","7",".","0">>,
      BK1001 |-> <<"B","K","-","1","0","0","1">>,
      bk1001 |-> <<"b","k","-","1","0","0","1">>,
      c9999999 |-> <<"9","9","9","9","9","9","9">>,
      d1dash |-> <<"1","2","-","0","5","-","2","0","2","5">>,
      d3 |-> <<"1","6","/","0","5","/","2","0","2","5">>,
      Pending |-> <<"P","e","n","d","i","n","g">>,
      NA |-> <<"N","/","A">>,
      hBookingDate |-> <<"B","o","o","k","i","n","g"," ","D","a","t","e">>,
      hBookingID |-> <<"B","o","o","k","i","n","g"," ","I","D">>,
      hReservationNumber |-> <<"R","e","s","e","r","v","a","t","i","o","n"," ","N","u","m","b","e","r">>,
      hConfirmationNumber |-> <<"C","o","n","f","i","r","m","a","t","i","o","n"," ","N","u","m","b","e","r">>,
      hConfirmation |-> <<"C","o","n","f","i","r","m","a","t","i","o","n">>,
      hReference |-> <<"R","e","f","e","r","e","n","c","e">>,
      hBooking |-> <<"B","o","o","k","i","n","g">>,
      hArrival |-> <<"A","r","r","i","v","a","l">>,
      hDeparture |-> <<"D","e","p","a","r","t","u","r","e">>,
      hProperty |-> <<"P","r","o","p","e","r","t","y">>,
      hGuest |-> <<"G","u","e","s","t">>,
      hStatus |-> <<"S","t","a","t","u","s">>,
      n1 |-> <<"1">>,
      hCheckInUnderscore |-> <<"c","h","e","c","k","_","i","n","_","d","a","t","e">>,
      hCheckout |-> <<"C","h","e","c","k","o","u","t">>,
      hCustomer |-> <<"C","u","s","t","o","m","e","r">>,
      hVenue |-> <<"V","e","n","u","e">>,
      hName |-> <<"N","a","m","e">>,
      hAmount |-> <<"A","m","o","u","n","t">> ]

(***************************************************************************)
(* Inputs of extract_booking_code_from_email.                              *)
(***************************************************************************)
\* tables of a document, each the texts of its rows
Tbl ==
    [
      \* column-mode table of one booking (spec scenario A)
      ScenarioA |->
            << <<Txt.hBookingCode, Txt.hGuestName, Txt.hCheckIn, Txt.hCheckOut>>,
            <<Txt.c1234567, Txt.AshaRao, Txt.d1, Txt.d2>> >>,
      \* two data rows: an unusable code first, then a valid one with another guest
      TwoRows |->
            << <<Txt.hBookingCode, Txt.hGuestName>>,
            <<Txt.c12345, Txt.RaviK>>,
            <<Txt.c7654321, Txt.AshaRao>> >>,
      \* a code written with a separator, and a client but no guest
      Dashed |->
            << <<Txt.hBookingCode, Txt.hClientName, Txt.hHotelName>>,
            <<Txt.c123d4567, Txt.RaviK, Txt.Taj>> >>,
      \* label/value layout under a title row
      KeyValue |->
            << <<Txt.Details>>,
            <<Txt.hBookingCode, Txt.padded>>,
            <<Txt.hGuestName, Txt.RaviK>> >>,
      \* booking fields without any code
      NoCode |->
            << <<Txt.hGuestName, Txt.hHotelName, Txt.hCheckIn>>,
            <<Txt.AshaRao, Txt.Taj, Txt.d1>> >>,
      \* a data row with an empty cell under the second header
      EmptyCell |->
            << <<Txt.hBookingCode, Txt.hGuestName, Txt.hCheckIn>>,
            <<Txt.c1234567, <<>>, Txt.d1>> >>,
      \* a header row with an empty first cell over a numbering column
      EmptyHeader |->
            << << <<>>, Txt.hBookingCode, Txt.hGuestName>>,
            <<Txt.n1, Txt.c1234567, Txt.AshaRao>> >>,
      \* a resolved header row of two cells and exactly one more row
      OneRow |->
            << <<Txt.hBookingCode, Txt.hGuestName>>,
            <<Txt.c1234567, Txt.AshaRao>> >>,
      \* label/value layout with two labels of the same field
      Labels |->
            << <<Txt.Details>>,
            <<Txt.hBookingID, Txt.c1234567>>,
            <<Txt.hConfirmationNumber, Txt.c7654321>>,
            <<Txt.hGuestName, Txt.RaviK>>,
            <<Txt.hStatus, Txt.Pending>> >>,
      \* a date column headed 'Booking Date' before the code column
      BookingDate |->
            << <<Txt.hBookingDate, Txt.hBookingCode>>,
            <<Txt.d1, Txt.c1234567>> >>,
      \* a resolved header row and nothing else
      HeaderOnly |->
            << <<Txt.hBookingCode, Txt.hGuestName>> >>,
      \* no label resolves
      NoLabels |->
            << <<Txt.Details>>, <<Txt.hStatus, Txt.Pending>> >> ]
SampleTables == {Tbl.ScenarioA, Tbl.TwoRows, Tbl.Dashed, Tbl.KeyValue, Tbl.NoCode}

RECURSIVE SeqsUpTo(_, _)
SeqsUpTo(S, n) ==
    IF n = 0 THEN {<<>>}
    ELSE LET shorter == SeqsUpTo(S, n - 1)
         IN  shorter \cup {Append(q, x) : q \in shorter, x \in S}

DetailKeys == {"guest_name", "client_name", "property_name", "check_in_date", "check_out_date"}

\* the message handed to extract_booking_code_from_email and the state
\* before stage 1
InitExtract ==
  LET
    \* html_body: whether the message has an HTML part, and the tables of it
    HtmlBodies ==
        {[present |-> FALSE, tables |-> <<>>, unparsable |-> FALSE, fault |-> 0]}
            \cup {[present |-> TRUE, tables |-> t, unparsable |-> FALSE, fault |-> k] :
                     t \in SeqsUpTo(SampleTables, MaxTables), k \in 0..MaxTables}
            \cup {[present |-> TRUE, tables |-> t, unparsable |-> TRUE, fault |-> 0] :
                     t \in SeqsUpTo(SampleTables, MaxTables)}
    \* What the oracle call of line 422 does: it raises, it returns None or an empty string,
    \* or it returns a text.  A text is given by what the searches of lines
    \* 435-456 capture in it: the group(1) of every pattern that matches, in
    \* pattern order, and the text after the colon of every labelled line.
    OracleOutcomes ==
        { [kind |-> "raise", patterns |-> <<>>, lines |-> <<>>],
          [kind |-> "none",  patterns |-> <<>>, lines |-> <<>>],
          [kind |-> "text",  patterns |-> <<Txt.c5550001>>, lines |-> <<>>],
          [kind |-> "text",  patterns |-> <<Txt.c12345>>, lines |-> <<Txt.sp7654321>>],
          [kind |-> "text",  patterns |-> <<>>, lines |-> <<>>] }
    \* openai_extractor: None, an extractor with enabled = False, or an enabled one
    Extractors == {"None", "disabled", "enabled"}
    \* The combined fallback text of lines 469-525, given by what the searches
    \* of lines 538-566 capture in it: the group(1) of every label pattern that
    \* matches, in pattern order, and the seven-digit run of every keyword
    \* window that has one, in scan order.
    FallbackTexts ==
        { [patterns |-> <<>>, windows |-> <<>>],
          [patterns |-> <<Txt.c9876543>>, windows |-> <<Txt.c9876543>>],
          [patterns |-> <<Txt.reference>>, windows |-> <<Txt.c4444444>>],
          [patterns |-> <<Txt.c987d6543>>, windows |-> <<>>] }
  IN
    /\ msg \in { [html_body |-> h, bs4 |-> b, openai_extractor |-> x,
                  oracle |-> o, fallback |-> f] :
                  h \in HtmlBodies, b \in BOOLEAN, x \in Extractors,
                  o \in OracleOutcomes, f \in FallbackTexts }
    \* the oracle's behaviour is an input only when the call can be made
    /\ msg.openai_extractor # "enabled" => msg.oracle.kind = "none"
    /\ msg.html_body.fault <= Len(msg.html_body.tables)
    /\ pc = "stage1"
    /\ table_entries = <<>>
    /\ entry_idx = 1
    /\ booking_code = None
    /\ booking_details = EmptyDict
    /\ stage_log = <<>>
    /\ stage1_details = EmptyDict

\* lines 382-387: stage 1 runs only on a non-empty HTML body
Stage1Parse ==
    /\ pc = "stage1"
    /\ ~ParseRaises(msg.html_body, msg.bs4)
    /\ IF msg.html_body.present
       THEN /\ table_entries' = parse_html_tables_for_booking_data(msg.html_body, msg.bs4)
            /\ booking_details' = IF table_entries' # <<>>
                                  THEN Put(booking_details, "table_entries", table_entries')
                                  ELSE booking_details
            /\ stage_log' = Append(stage_log, "table")
            /\ pc' = "entries"
       ELSE /\ pc' = "stage2"
            /\ UNCHANGED <<table_entries, booking_details, stage_log>>
    /\ UNCHANGED <<mvars, pvars, gvars, msg, entry_idx, booking_code, stage1_details>>

\* line 384 and lines 603-617: the exception raised while a table is
\* processed leaves parse_html_tables_for_booking_data and, line 384 being
\* outside any try, extract_booking_code_from_email; the handler of
\* extract_comprehensive_email_data gives the message no code and no details
Stage1ParseRaises ==
    /\ pc = "stage1"
    /\ ParseRaises(msg.html_body, msg.bs4)
    /\ pc' = "raised"
    /\ booking_code' = None
    /\ booking_details' = EmptyDict
    /\ UNCHANGED <<mvars, pvars, gvars, msg, table_entries, entry_idx, stage_log, stage1_details>>

\* lines 396-407 for one entry: the non-code fields
StoreEntryFields(d0, entry) ==
    LET d1 == IF Get(entry, "guest_name") # <<>>
              THEN store_detail(d0, "guest_name", entry["guest_name"]) ELSE d0
        d2 == IF Get(entry, "client_name") # <<>>
              THEN LET c == store_detail(d1, "client_name", entry["client_name"])
                   IN  IF "guest_name" \notin DOMAIN c
                       THEN store_detail(c, "guest_name", entry["client_name"])
                       ELSE c
              ELSE d1
        d3 == IF Get(entry, "property_name") # <<>>
              THEN store_detail(d2, "property_name", entry["property_name"]) ELSE d2
        d4 == IF Get(entry, "check_in_date") # <<>>
              THEN store_detail(d3, "check_in_date", entry["check_in_date"]) ELSE d3
    IN  IF Get(entry, "check_out_date") # <<>>
        THEN store_detail(d4, "check_out_date", entry["check_out_date"]) ELSE d4

\* lines 388-407: one iteration of the loop over table_entries
Stage1Entry ==
    /\ pc = "entries"
    /\ entry_idx <= Len(table_entries)
    /\ LET entry == table_entries[entry_idx]
           \* normalize_table_header never yields 'confirmation_number' or 'reference'
           candidate == Get(entry, "booking_code")
           candidate_clean == clean_booking_value(candidate)
           adopt == /\ candidate # <<>>
                    /\ booking_code = None
                    /\ is_valid_booking_code(candidate_clean)
           d0 == IF adopt
                 THEN Put(booking_details, "booking_code_source", "email_table")
                 ELSE booking_details
       IN  /\ booking_code' = IF adopt THEN candidate_clean ELSE booking_code
           /\ booking_details' = StoreEntryFields(d0, entry)
    /\ entry_idx' = entry_idx + 1
    /\ UNCHANGED <<mvars, pvars, gvars, msg, pc, table_entries, stage_log, stage1_details>>

\* lines 408-415 with the return of line 411 left out
Stage1End_NoReturn ==
    /\ pc = "entries"
    /\ entry_idx > Len(table_entries)
    /\ booking_details' = IF booking_code # None
                          THEN Put(booking_details, "booking_code", booking_code)
                          ELSE booking_details
    /\ pc' = "stage2"
    /\ stage1_details' = booking_details'
    /\ UNCHANGED <<mvars, pvars, gvars, msg, table_entries, entry_idx, booking_code, stage_log>>

\* lines 408-415: a code found in the tables ends the call
Stage1End ==
    /\ pc = "entries"
    /\ entry_idx > Len(table_entries)
    /\ IF booking_code # None
       THEN /\ booking_details' = Put(booking_details, "booking_code", booking_code)
            /\ pc' = "done"
       ELSE /\ pc' = "stage2"
            /\ UNCHANGED booking_details
    /\ stage1_details' = booking_details'
    /\ UNCHANGED <<mvars, pvars, gvars, msg, table_entries, entry_idx, booking_code, stage_log>>

\* lines 417-463 with an except clause that gives up the whole extraction
Stage2_AbortOnFailure ==
    /\ pc = "stage2"
    /\ IF msg.openai_extractor = "enabled"
       THEN /\ stage_log' = Append(stage_log, "oracle")
            /\ IF msg.oracle.kind = "text"
               THEN LET by_pattern == FirstValidCandidate(msg.oracle.patterns)
                        found == IF by_pattern # None THEN by_pattern
                                 ELSE FirstValidCandidate(msg.oracle.lines)
                        d0 == Put(booking_details, "ai_raw_response", "text")
                    IN  /\ booking_code' = IF found # None THEN found ELSE booking_code
                        /\ booking_details' =
                              IF found # None
                              THEN Put(Put(d0, "booking_code_source", "bedrock"),
                                       "booking_code", found)
                              ELSE d0
                        /\ pc' = "stage3"
               ELSE /\ booking_code' = None
                    /\ booking_details' = EmptyDict
                    /\ pc' = "done"
       ELSE /\ pc' = "stage3"
            /\ UNCHANGED <<booking_code, booking_details, stage_log>>
    /\ UNCHANGED <<mvars, pvars, gvars, msg, table_entries, entry_idx, stage1_details>>

\* lines 417-463: the oracle stage.  The scan of the response sets
\* booking_code whatever it held; a raised exception and a None or empty
\* response leave everything as it was.
Stage2 ==
    /\ pc = "stage2"
    /\ IF msg.openai_extractor = "enabled"
       THEN /\ stage_log' = Append(stage_log, "oracle")
            /\ IF msg.oracle.kind = "text"
               THEN LET by_pattern == FirstValidCandidate(msg.oracle.patterns)
                        found == IF by_pattern # None THEN by_pattern
                                 ELSE FirstValidCandidate(msg.oracle.lines)
                        d0 == Put(booking_details, "ai_raw_response", "text")
                    IN  /\ booking_code' = IF found # None THEN found ELSE booking_code
                        /\ booking_details' =
                              IF found # None
                              THEN Put(Put(d0, "booking_code_source", "bedrock"),
                                       "booking_code", found)
                              ELSE d0
               ELSE UNCHANGED <<booking_code, booking_details>>
       ELSE UNCHANGED <<booking_code, booking_details, stage_log>>
    /\ pc' = "stage3"
    /\ UNCHANGED <<mvars, pvars, gvars, msg, table_entries, entry_idx, stage1_details>>

\* the fallback scan of lines 538-568 on the combined text
FallbackScan(fallback) ==
    LET by_pattern == FirstValidCandidate(fallback.patterns) IN
    IF by_pattern # None
    THEN [code |-> by_pattern, source |-> "regex_fallback"]
    ELSE LET by_window == FirstValidCandidate(fallback.windows)
         IN  [code |-> by_window, source |-> "heuristic_window"]

\* lines 465-581 with the guard of line 466 left out
Stage3_Unconditional ==
    /\ pc = "stage3"
    /\ LET hit == FallbackScan(msg.fallback) IN
       /\ stage_log' = Append(stage_log, "fallback")
       /\ booking_code' = IF hit.code # None THEN hit.code ELSE booking_code
       /\ booking_details' =
             IF hit.code # None
             THEN Put(Put(booking_details, "booking_code_source", hit.source),
                      "booking_code", hit.code)
             ELSE booking_details
    /\ pc' = "done"
    /\ UNCHANGED <<mvars, pvars, gvars, msg, table_entries, entry_idx, stage1_details>>

\* lines 465-581: the fallback scan, entered only without a code, and the return
Stage3 ==
    /\ pc = "stage3"
    /\ IF booking_code = None
       THEN LET hit == FallbackScan(msg.fallback) IN
            /\ stage_log' = Append(stage_log, "fallback")
            /\ booking_code' = hit.code
            /\ booking_details' =
                  IF hit.code # None
                  THEN Put(Put(booking_details, "booking_code_source", hit.source),
                           "booking_code", hit.code)
                  ELSE booking_details
       ELSE /\ booking_details' =
                  IF "booking_code" \notin DOMAIN booking_details
                  THEN Put(booking_details, "booking_code", booking_code)
                  ELSE booking_details
            /\ UNCHANGED <<booking_code, stage_log>>
    /\ pc' = "done"
    /\ UNCHANGED <<mvars, pvars, gvars, msg, table_entries, entry_idx, stage1_details>>

NextExtract ==
    \/ Stage1Parse
    \/ Stage1ParseRaises
    \/ Stage1Entry
    \/ Stage1End
    \/ Stage2
    \/ Stage3

(***************************************************************************)
(* The record matcher: match_invoice_data_with_excel and                   *)
(* match_invoice_master_sheet_with_excel, which share the matching loop    *)
(* line for line and differ only in where the records come from.           *)
(*                                                                         *)
(* A cell of the DataFrame is the text str() gives for it, except an empty *)
(* cell, which pandas reads as NaN, and a date cell, which pandas reads as *)
(* a Timestamp: <<"TS">> followed by the date written dd/mm/yyyy.          *)
(***************************************************************************)
NaN == <<"NaN">>
\* pd.isna(value)
isna(value) == value = NaN
IsTimestamp(value) == value # <<>> /\ Head(value) = "TS"

S_Received == <<"R","e","c","e","i","v","e","d">>
S_nan == <<"n","a","n">>
TS_d2 == <<"TS">> \o Txt.d2

\* lines 48-49
INVOICE_RECEIVED_VALUE == S_Received

\* lines 39-45
MATCHING_FIELDS == {"Booking Code", "Guest Name", "Hotel Name", "Check-In Date", "Check-Out Date"}

\* str(value) of a cell, as astype(str) and str() give it
Str(value) ==
    IF isna(value) THEN S_nan
    ELSE IF IsTimestamp(value)
         THEN SubSeq(value, 8, 11) \o <<"-">> \o SubSeq(value, 5, 6) \o <<"-">>
                  \o SubSeq(value, 2, 3) \o <<" ","0","0",":","0","0",":","0","0">>
    ELSE value

(***************************************************************************)
(* normalize_booking_code_value (lines 1666-1684).                         *)
(* float() is modelled on the texts the inputs can hold: an optional sign, *)
(* digits and at most one decimal point (no exponent, underscore, inf or   *)
(* nan spelling), short enough for a float to hold the integer exactly.    *)
(***************************************************************************)
Unsigned(text) == IF text # <<>> /\ Head(text) \in {"+", "-"} THEN Tail(text) ELSE text
DotCount(text) == Len(SelectSeq(text, LAMBDA c : c = "."))
DotPos(text) == IF DotCount(text) = 0 THEN Len(text) + 1
                ELSE CHOOSE i \in 1..Len(text) : text[i] = "." /\ \A j \in 1..(i - 1) : text[j] # "."
IntPart(text) == SubSeq(text, 1, DotPos(text) - 1)
FracPart(text) == SubSeq(text, DotPos(text) + 1, Len(text))
\* float(text) succeeds
IsFloatText(text) ==
    LET u == Unsigned(text) IN
    /\ DotCount(u) <= 1
    /\ AllDigits(RemoveChars(u, {"."}))
    /\ RemoveChars(u, {"."}) # <<>>
\* float(text).is_integer()
FloatIsInteger(text) == \A i \in 1..Len(FracPart(Unsigned(text))) : FracPart(Unsigned(text))[i] = "0"
\* str(int(float(text)))
IntText(text) ==
    LET digits == LStrip(IntPart(Unsigned(text)), {"0"})
    IN  IF digits = <<>> THEN <<"0">>
        ELSE IF Head(text) = "-" THEN <<"-">> \o digits ELSE digits
\* re.fullmatch(r'\d+\.0+', text)
IsDigitsDotZeros(text) ==
    /\ DotCount(text) = 1
    /\ IntPart(text) # <<>> /\ AllDigits(IntPart(text))
    /\ FracPart(text) # <<>> /\ \A i \in 1..Len(FracPart(text)) : FracPart(text)[i] = "0"

normalize_booking_code_value(value) ==
    IF isna(value) THEN <<>>
    ELSE LET t1 == Strip(Str(value)) IN
         IF t1 = <<>> THEN <<>>
         ELSE LET t2 == StripChars(t1, QuoteChars)
                  t3 == RemoveChars(t2, {",", " "})
                  t4 == IF IsDigitsDotZeros(t3) THEN IntPart(t3)
                        ELSE IF IsFloatText(t3) /\ FloatIsInteger(t3) THEN IntText(t3)
                        ELSE t3
              IN  Lower(t4)

(***************************************************************************)
(* normalize_date_for_match (lines 2378-2396 and 1981-1999): the pair of   *)
(* candidate strings.                                                      *)
(***************************************************************************)
MonthAbbr == << <<"j","a","n">>, <<"f","e","b">>, <<"m","a","r">>, <<"a","p","r">>,
                <<"m","a","y">>, <<"j","u","n">>, <<"j","u","l">>, <<"a","u","g">>,
                <<"s","e","p">>, <<"o","c","t">>, <<"n","o","v">>, <<"d","e","c">> >>
DigitSeq == <<"0","1","2","3","4","5","6","7","8","9">>
DigitVal(c) == (CHOOSE i \in 1..10 : DigitSeq[i] = c) - 1
\* strftime('%d-%b-%Y').lower() of the Timestamp written dd/mm/yyyy
StrfDayMonYear(d) ==
    SubSeq(d, 1, 2) \o <<"-">> \o MonthAbbr[10 * DigitVal(d[4]) + DigitVal(d[5])]
        \o <<"-">> \o SubSeq(d, 7, 10)

normalize_date_for_match(date_str) ==
    IF isna(date_str) \/ date_str = <<>> THEN << <<>>, <<>> >>
    ELSE IF IsTimestamp(date_str)
         THEN << StrfDayMonYear(Tail(date_str)), Tail(date_str) >>
    ELSE LET d == Lower(Strip(date_str))
         IN  << ReplaceChars(d, {"/", " ", "."}, "-"), d >>

\* lines 2415-2426: one row's date against the record's date
DateMatches(entry_date, excel_date) ==
    LET n == normalize_date_for_match(entry_date)
        x == normalize_date_for_match(excel_date)
    IN  \/ n[1] = x[1] \/ n[1] = x[2] \/ n[2] = x[1] \/ n[2] = x[2]
        \/ /\ n[1] # <<>> /\ x[1] # <<>>
           /\ LET entry_clean == RemoveChars(n[1], {"-", "/", " "})
                  excel_clean == RemoveChars(x[1], {"-", "/", " "})
              IN  Contains(entry_clean, excel_clean) \/ Contains(excel_clean, entry_clean)

\* lines 2403-2407 and 2452-2456: the boolean series of a name column
\* against the record's value: equality when some row is equal, else the
\* rows whose text contains the value
NameCondition(frame, col, value) ==
    LET cell(i) == Lower(Strip(Str(frame[i][col])))
        equal == {i \in 1..Len(frame) : cell(i) = Lower(value)}
    IN  IF equal # {} THEN equal
        ELSE {i \in 1..Len(frame) : Contains(Lower(value), cell(i))}

\* lines 2459 with condition4 left out of the conjunction
CompositeRows_NoHotel(frame, entry) ==
    NameCondition(frame, "guest", Strip(entry.guest))
        \cap {i \in 1..Len(frame) : DateMatches(Strip(entry.checkin), frame[i].checkin)}
        \cap {i \in 1..Len(frame) : DateMatches(Strip(entry.checkout), frame[i].checkout)}

\* lines 2398-2460: the rows that satisfy all four conditions
CompositeRows(frame, entry) ==
    NameCondition(frame, "guest", Strip(entry.guest))
        \cap {i \in 1..Len(frame) : DateMatches(Strip(entry.checkin), frame[i].checkin)}
        \cap {i \in 1..Len(frame) : DateMatches(Strip(entry.checkout), frame[i].checkout)}
        \cap NameCondition(frame, "hotel", Strip(entry.hotel))

\* lines 2321-2341: step 1, the rows with the record's booking code
PrimaryRows(frame, entry, columns) ==
    LET normalized_entry_code == normalize_booking_code_value(entry.code) IN
    IF "Booking Code" \in columns /\ normalized_entry_code # <<>>
    THEN {i \in 1..Len(frame) : normalize_booking_code_value(frame[i].code) = normalized_entry_code}
    ELSE {}

\* the composite key tried first, the booking code only when it gives no row
MatchEntry_CompositeFirst(frame, entry, columns, fault) ==
    LET composite ==
            IF /\ {"Guest Name", "Hotel Name", "Check-In Date", "Check-Out Date"} \subseteq columns
               /\ Strip(entry.guest) # <<>> /\ Strip(entry.hotel) # <<>>
               /\ Strip(entry.checkin) # <<>> /\ Strip(entry.checkout) # <<>>
               /\ fault # "step2"
            THEN CompositeRows(frame, entry) ELSE {}
    IN  IF composite # {} THEN [rows |-> composite, step |-> "composite"]
        ELSE IF fault = "step1" THEN [rows |-> {}, step |-> "error"]
        ELSE [rows |-> PrimaryRows(frame, entry, columns), step |-> "primary"]

\* lines 2319-2468: matching_row_indices of one record and the step that
\* produced them.  fault tells where an exception is raised: "step1" inside
\* the try of lines 2330-2341, whose handler leaves the list empty and goes
\* on to step 2; "step2" inside the try of lines 2371-2468, whose handler
\* abandons the record; anything else nowhere in the matching.
MatchEntry(frame, entry, columns, fault) ==
    LET primary == IF fault = "step1" THEN {} ELSE PrimaryRows(frame, entry, columns) IN
    IF primary # {} THEN [rows |-> primary, step |-> "primary"]
    ELSE IF ~({"Guest Name", "Hotel Name", "Check-In Date", "Check-Out Date"} \subseteq columns)
         THEN [rows |-> {}, step |-> "missing_columns"]
    ELSE IF \/ Strip(entry.guest) = <<>> \/ Strip(entry.hotel) = <<>>
            \/ Strip(entry.checkin) = <<>> \/ Strip(entry.checkout) = <<>>
         THEN [rows |-> {}, step |-> "missing_fields"]
    ELSE IF fault = "step2" THEN [rows |-> {}, step |-> "error"]
    ELSE [rows |-> CompositeRows(frame, entry), step |-> "composite"]

\* where an exception can be raised while one record is processed: nowhere,
\* in the try of step 1 when it is entered, in the try of step 2 when it is
\* entered, or in the try of lines 2473-2497 for one of the matched rows
NoFault == [at |-> "none", row |-> 0]
MatchFaults(frame, entry, columns) ==
    LET clean == MatchEntry(frame, entry, columns, "none") IN
    {NoFault}
        \cup {[at |-> "step1", row |-> 0] :
                 x \in {y \in {1} : /\ "Booking Code" \in columns
                                     /\ normalize_booking_code_value(entry.code) # <<>>}}
        \cup {[at |-> "step2", row |-> 0] : x \in {y \in {1} : clean.step = "composite"}}
        \cup {[at |-> "update", row |-> r] : r \in clean.rows}

\* line 2475-2476: the row is already marked
AlreadyReceived(row) == Lower(Strip(Str(row.received))) = Lower(INVOICE_RECEIVED_VALUE)

\* lines 2472-2483 without the already-marked test
UpdateRows_NoSkip(frame, rows, failed) ==
    [table |-> [i \in 1..Len(frame) |->
                IF i \in rows \ failed
                THEN [frame[i] EXCEPT !.received = INVOICE_RECEIVED_VALUE] ELSE frame[i]],
     updated |-> rows \ failed,
     skipped |-> {}]

\* lines 2472-2483 with the marked rows cleared instead of skipped
UpdateRows_Toggle(frame, rows, failed) ==
    [table |-> [i \in 1..Len(frame) |->
                IF i \in rows \ failed
                THEN IF AlreadyReceived(frame[i])
                     THEN [frame[i] EXCEPT !.received = <<>>]
                     ELSE [frame[i] EXCEPT !.received = INVOICE_RECEIVED_VALUE]
                ELSE frame[i]],
     updated |-> {i \in rows \ failed : ~AlreadyReceived(frame[i])},
     skipped |-> {i \in rows \ failed : AlreadyReceived(frame[i])}]

\* lines 2470-2497: the update of the matched rows; the table after it, the
\* rows set to Received and the rows skipped as already marked.  A row of
\* failed is one for which the try of lines 2473-2497 raises: it is neither
\* set nor counted, and the loop goes on to the next row.
UpdateRows(frame, rows, failed) ==
    [table |-> [i \in 1..Len(frame) |->
                IF i \in rows \ failed /\ ~AlreadyReceived(frame[i])
                THEN [frame[i] EXCEPT !.received = INVOICE_RECEIVED_VALUE]
                ELSE frame[i]],
     updated |-> {i \in rows \ failed : ~AlreadyReceived(frame[i])},
     skipped |-> {i \in rows \ failed : AlreadyReceived(frame[i])}]

(***************************************************************************)
(* Inputs of the matcher.                                                  *)
(***************************************************************************)
Row(code, guest, hotel, checkin, checkout, received) ==
    [code |-> code, guest |-> guest, hotel |-> hotel,
     checkin |-> checkin, checkout |-> checkout, received |-> received]

\* rows of the persisted sheet; an empty cell is <<>>
SheetRow ==
    [
      \* rows of the persisted sheet; an empty cell is <<>>
      John |->
            Row(Txt.c1234567, Txt.JohnSmith, Txt.TajPalaceHotel, Txt.d1, TS_d2, <<>>),
      \* same guest and stay as SheetRow.John in another hotel, the code entered as
      \* N/A (spec scenario E)
      JohnSea |->
            Row(Txt.NA, Txt.JohnSmith, Txt.SeaView, Txt.d1dash, Txt.d2, <<>>),
      \* a code the spreadsheet turned into a float, already marked
      Asha |->
            Row(Txt.c1234567p0, Txt.AshaRao, Txt.SeaView, Txt.d1, Txt.d3, Txt.received_lc),
      \* a code that is no seven-digit code
      BK |->
            Row(Txt.BK1001, Txt.RaviK, Txt.Taj, Txt.d3, Txt.d3, Txt.Pending) ]
Entry(code, guest, hotel, checkin, checkout) ==
    [code |-> code, guest |-> guest, hotel |-> hotel, checkin |-> checkin, checkout |-> checkout]

\* records of extracted_data_list
Rec ==
    [
      \* records of extracted_data_list (lines 2266-2276, 1830-1845): at least
      \* one field of each is non-empty
      Code |->
            Entry(Txt.c1234567, <<>>, <<>>, <<>>, <<>>),
      Composite |->
            Entry(<<>>, Txt.john_smith, Txt.Taj, Txt.d1, Txt.d2),
      BK |->
            Entry(Txt.bk1001, <<>>, <<>>, <<>>, <<>>),
      ScenarioE |->
            Entry(<<>>, Txt.JohnSmith, Txt.OceanPearl, Txt.d1, Txt.d2),
      StaleCode |->
            Entry(Txt.c9999999, Txt.Smith, Txt.SeaView, Txt.d1, Txt.d2),
      GuestOnly |->
            Entry(<<>>, Txt.AshaRao, <<>>, <<>>, <<>>),
      \* the code of two rows with the guest, hotel and stay of one of them
      Both |->
            Entry(Txt.c1234567, Txt.AshaRao, Txt.SeaView, Txt.d1, Txt.d3) ]
\* texts that pd.read_excel, called with its default keep_default_na, takes
\* for missing values (some of them)
STR_NA_VALUES == {Txt.NA, S_nan, <<"N","A">>, <<"N","o","n","e">>, <<"n","u","l","l">>}
\* pd.read_excel (line 1749): an empty cell and a cell holding one of the
\* texts above are read as NaN
ReadCell(c) == IF c = <<>> \/ c \in STR_NA_VALUES THEN NaN ELSE c
ReadRow(r) == [f \in DOMAIN r |-> ReadCell(r[f])]
\* DataFrame.to_excel: NaN and the empty string are written as empty cells
WriteCell(c) == IF isna(c) THEN <<>> ELSE c
WriteRow(r) == [f \in DOMAIN r |-> WriteCell(r[f])]

\* lines 2201 and 2298-2303: the DataFrame read from the sheet, with the
\* column of line 48 added as empty strings when the sheet has none
ReadSheet(sheet) ==
    [i \in 1..Len(sheet.rows) |->
        IF sheet.has_column THEN ReadRow(sheet.rows[i])
        ELSE [ReadRow(sheet.rows[i]) EXCEPT !.received = <<>>]]

NoLast == [idx |-> 0, rows |-> {}, step |-> "none", updated |-> {}, skipped |-> {},
           fault |-> NoFault]

\* the sheet, the records and the column mapping of a call of
\* match_invoice_data_with_excel, and the state before the first run
InitMatch ==
  LET
    \* the persisted sheet: its rows and whether it has the column of line 48
    SampleFiles ==
        { [has_column |-> TRUE,  rows |-> <<SheetRow.John, SheetRow.JohnSea, SheetRow.Asha>>],
          [has_column |-> FALSE, rows |-> <<[SheetRow.BK EXCEPT !.received = <<>>], SheetRow.John>>],
          [has_column |-> TRUE,  rows |-> <<>>] }
    \* the records handed to the matcher
    SampleEntries == {Rec.Code, Rec.Composite, Rec.BK, Rec.ScenarioE, Rec.StaleCode, Rec.GuestOnly,
                      Rec.Both}
    \* field_to_column (lines 2285-2292): the matching fields for which
    \* find_matching_column found a column of the sheet
    ColumnMappings ==
        { MATCHING_FIELDS,
          MATCHING_FIELDS \ {"Booking Code"},
          {"Booking Code", "Guest Name"},
          {} }
  IN
    /\ file \in SampleFiles
    /\ entries \in SeqsUpTo(SampleEntries, MaxRecords) \ {<<>>}
    /\ field_to_column \in ColumnMappings
    /\ mpc = "idle"
    /\ run = 0
    /\ df = <<>>
    /\ idx = 1
    /\ rows_updated = 0
    /\ rows_skipped = 0
    /\ ret = 0
    /\ file0 = file
    /\ save_result = "nothing"
    /\ prev_result = "nothing"
    /\ matched = 0
    /\ last = NoLast
    /\ faulted = FALSE

\* the extractor at rest, for the matcher's specification
ExtractIdle ==
    /\ msg = [html_body |-> [present |-> FALSE, tables |-> <<>>, unparsable |-> FALSE,
                            fault |-> 0],
              bs4 |-> TRUE,
              openai_extractor |-> "None",
              oracle |-> [kind |-> "none", patterns |-> <<>>, lines |-> <<>>],
              fallback |-> [patterns |-> <<>>, windows |-> <<>>]]
    /\ pc = "done"
    /\ table_entries = <<>>
    /\ entry_idx = 1
    /\ booking_code = None
    /\ booking_details = EmptyDict
    /\ stage_log = <<>>
    /\ stage1_details = EmptyDict

\* the matcher at rest, for the extractor's specification
MatchIdle ==
    /\ file = [has_column |-> TRUE, rows |-> <<>>]
    /\ entries = <<>>
    /\ field_to_column = {}
    /\ mpc = "idle"
    /\ run = MaxRuns
    /\ df = <<>>
    /\ idx = 1
    /\ rows_updated = 0
    /\ rows_skipped = 0
    /\ ret = 0
    /\ file0 = file
    /\ save_result = "nothing"
    /\ prev_result = "nothing"
    /\ matched = 0
    /\ last = NoLast
    /\ faulted = FALSE

\* lines 2201-2204, 2278-2280, 2294-2296: the run ends at once with 0 when
\* the sheet has no rows or no matching field found a column
MatchReturnsEarly ==
    /\ mpc = "idle"
    /\ run < MaxRuns
    /\ file.rows = <<>> \/ field_to_column = {}
    /\ run' = run + 1
    /\ ret' = 0
    /\ save_result' = "nothing"
    /\ prev_result' = save_result
    /\ rows_updated' = 0
    /\ rows_skipped' = 0
    /\ matched' = 0
    /\ last' = NoLast
    /\ UNCHANGED <<evars, pvars, gvars, file, entries, field_to_column, mpc, df, idx, file0, faulted>>

\* lines 2201-2306: the sheet is read, the column of line 48 added when it
\* is missing, the counters reset
MatchStart ==
    /\ mpc = "idle"
    /\ run < MaxRuns
    /\ file.rows # <<>>
    /\ field_to_column # {}
    /\ df' = ReadSheet(file)
    /\ run' = run + 1
    /\ idx' = 1
    /\ rows_updated' = 0
    /\ rows_skipped' = 0
    /\ matched' = 0
    /\ last' = NoLast
    /\ prev_result' = save_result
    /\ mpc' = "loop"
    /\ UNCHANGED <<evars, pvars, gvars, file, entries, field_to_column, ret, file0, save_result, faulted>>

\* lines 2309-2499 without the handlers: an exception ends the run
MatchRecord_AbortOnError ==
    /\ mpc = "loop"
    /\ idx <= Len(entries)
    /\ \E fault \in MatchFaults(df, entries[idx], field_to_column) :
       \E m \in {MatchEntry(df, entries[idx], field_to_column, "none")} :
       \E u \in {UpdateRows(df, m.rows, {})} :
           IF fault = NoFault
           THEN /\ df' = u.table
                /\ rows_updated' = rows_updated + Cardinality(u.updated)
                /\ rows_skipped' = rows_skipped + Cardinality(u.skipped)
                /\ matched' = matched + Cardinality(m.rows)
                /\ last' = [idx |-> idx, rows |-> m.rows, step |-> m.step,
                            updated |-> u.updated, skipped |-> u.skipped, fault |-> fault]
                /\ idx' = idx + 1
                /\ UNCHANGED <<mpc, faulted>>
           ELSE /\ df' = <<>>
                /\ mpc' = "idle"
                /\ faulted' = TRUE
                /\ last' = [idx |-> idx, rows |-> {}, step |-> "error",
                            updated |-> {}, skipped |-> {}, fault |-> fault]
                /\ UNCHANGED <<rows_updated, rows_skipped, matched, idx>>
    /\ UNCHANGED <<evars, pvars, gvars, file, entries, field_to_column, run, ret, file0,
                   save_result, prev_result>>

\* lines 2309-2499: one record of the loop
MatchRecord ==
    /\ mpc = "loop"
    /\ idx <= Len(entries)
    /\ \E fault \in MatchFaults(df, entries[idx], field_to_column) :
       \E m \in {MatchEntry(df, entries[idx], field_to_column, fault.at)} :
       \E u \in {UpdateRows(df, m.rows, IF fault.at = "update" THEN {fault.row} ELSE {})} :
           /\ df' = u.table
           /\ rows_updated' = rows_updated + Cardinality(u.updated)
           /\ rows_skipped' = rows_skipped + Cardinality(u.skipped)
           /\ matched' = matched + Cardinality(m.rows)
           /\ last' = [idx |-> idx, rows |-> m.rows, step |-> m.step,
                       updated |-> u.updated, skipped |-> u.skipped, fault |-> fault]
           /\ faulted' = (faulted \/ fault # NoFault)
    /\ idx' = idx + 1
    /\ mpc' = "loop"
    /\ UNCHANGED <<evars, pvars, gvars, file, entries, field_to_column, run, ret, file0,
                   save_result, prev_result>>

\* lines 2507, 2575-2582: nothing was updated, nothing is written
MatchReturnsUnchanged ==
    /\ mpc = "loop"
    /\ idx > Len(entries)
    /\ rows_updated = 0
    /\ ret' = rows_updated
    /\ save_result' = "nothing"
    /\ mpc' = "idle"
    /\ df' = <<>>
    /\ UNCHANGED <<evars, pvars, gvars, file, entries, field_to_column, run, idx, rows_updated,
                   rows_skipped, file0, prev_result, matched, last, faulted>>

\* lines 2507-2566: the DataFrame is written to the sheet
MatchSaves ==
    /\ mpc = "loop"
    /\ idx > Len(entries)
    /\ rows_updated > 0
    /\ file' = [has_column |-> TRUE, rows |-> [i \in 1..Len(df) |-> WriteRow(df[i])]]
    /\ ret' = rows_updated
    /\ save_result' = "saved"
    /\ mpc' = "idle"
    /\ df' = <<>>
    /\ UNCHANGED <<evars, pvars, gvars, entries, field_to_column, run, idx, rows_updated,
                   rows_skipped, file0, prev_result, matched, last, faulted>>

\* lines 2513-2520: the sheet is open elsewhere (PermissionError on the
\* test open): the count is returned and nothing is written
MatchFileLocked ==
    /\ mpc = "loop"
    /\ idx > Len(entries)
    /\ rows_updated > 0
    /\ ret' = rows_updated
    /\ save_result' = "locked"
    /\ mpc' = "idle"
    /\ df' = <<>>
    /\ UNCHANGED <<evars, pvars, gvars, file, entries, field_to_column, run, idx, rows_updated,
                   rows_skipped, file0, prev_result, matched, last, faulted>>

\* lines 2567-2582: writing raises before the sheet is replaced; the
\* exception is printed and the count returned
MatchSaveFails ==
    /\ mpc = "loop"
    /\ idx > Len(entries)
    /\ rows_updated > 0
    /\ ret' = rows_updated
    /\ save_result' = "failed"
    /\ mpc' = "idle"
    /\ df' = <<>>
    /\ UNCHANGED <<evars, pvars, gvars, file, entries, field_to_column, run, idx, rows_updated,
                   rows_skipped, file0, prev_result, matched, last, faulted>>

NextMatch ==
    \/ MatchReturnsEarly
    \/ MatchStart
    \/ MatchRecord
    \/ MatchReturnsUnchanged
    \/ MatchSaves
    \/ MatchFileLocked
    \/ MatchSaveFails

(***************************************************************************)
(* Specifications.                                                         *)
(***************************************************************************)
\* one call of extract_booking_code_from_email on any of the messages
(***************************************************************************)
(* load_vendor_reference (lines 59-78) and find_vendor_column (lines       *)
(* 809-885).  A dict is the sequence of its items in insertion order.      *)
(* fuzz.ratio is the ratio of fuzzywuzzy: 2*M/T in percent, M the number   *)
(* of matching characters and T the length of both texts, rounded as       *)
(* Python rounds.                                                          *)
(***************************************************************************)
UNASSIGNED == "UNASSIGNED"
UnknownVendor == <<"U","n","k","n","o","w","n"," ","V","e","n","d","o","r">>

DictHas(d, k) == \E i \in 1..Len(d) : d[i].key = k
DictGet(d, k) == d[CHOOSE i \in 1..Len(d) : d[i].key = k].owner
\* d[k] = v: a key already present keeps its place
DictSet(d, k, v) ==
    IF DictHas(d, k)
    THEN [i \in 1..Len(d) |-> IF d[i].key = k THEN [key |-> k, owner |-> v] ELSE d[i]]
    ELSE Append(d, [key |-> k, owner |-> v])

\* lines 68-72: the names of one column, each under its lower-cased and its
\* original spelling
RECURSIVE LoadColumn(_, _, _, _)
LoadColumn(d, col, vendors, i) ==
    IF i > Len(vendors) THEN d
    ELSE IF Strip(vendors[i]) = <<>> THEN LoadColumn(d, col, vendors, i + 1)
    ELSE LoadColumn(DictSet(DictSet(d, Lower(Strip(vendors[i])), col), Strip(vendors[i]), col),
                    col, vendors, i + 1)

RECURSIVE LoadColumns(_, _, _)
LoadColumns(d, userlist, c) ==
    IF c > Len(userlist.columns) THEN d
    ELSE LoadColumns(LoadColumn(d, userlist.columns[c].col, userlist.columns[c].vendors, 1), userlist, c + 1)

\* userlist is the sheet of line 62: whether it can be read and, in the order of
\* line 64, its owner columns with their names
load_vendor_reference(userlist) ==
    IF ~userlist.readable THEN <<>> ELSE LoadColumns(<<>>, userlist, 1)

\* str.split()
RECURSIVE Words(_)
Words(s) ==
    LET t == LStrip(s, WS) IN
    IF t = <<>> THEN <<>>
    ELSE LET n == IF \E i \in 1..Len(t) : t[i] \in WS
                  THEN CHOOSE i \in 1..Len(t) : t[i] \in WS /\ \A j \in 1..(i - 1) : t[j] \notin WS
                  ELSE Len(t) + 1
         IN  <<SubSeq(t, 1, n - 1)>> \o Words(SubSeq(t, n, Len(t)))

\* the longest common subsequence of a and b, row by row: prev and cur hold
\* the lengths for the prefixes of b, the empty one first
RECURSIVE FillRow(_, _, _, _)
FillRow(c, b, prev, cur) ==
    IF Len(cur) > Len(b) THEN cur
    ELSE LET j == Len(cur)
         IN  FillRow(c, b, prev,
                     Append(cur, IF c = b[j] THEN prev[j] + 1
                                 ELSE IF prev[j + 1] >= cur[j] THEN prev[j + 1] ELSE cur[j]))

\* (the test of Len(prev) has the row computed before the next one is begun)
RECURSIVE MatchRows(_, _, _, _)
MatchRows(a, b, i, prev) ==
    IF i > Len(a) \/ Len(prev) = 0 THEN prev[Len(b) + 1]
    ELSE MatchRows(a, b, i + 1, FillRow(a[i], b, prev, <<0>>))

Matching(a, b) == MatchRows(a, b, 1, [j \in 1..(Len(b) + 1) |-> 0])

\* int(round(n / d)), halves to the even neighbour
RoundDiv(n, d) ==
    LET q == n \div d
        r == n % d
    IN  IF 2 * r > d \/ (2 * r = d /\ q % 2 = 1) THEN q + 1 ELSE q

fuzz_ratio(s1, s2) ==
    IF s1 = <<>> \/ s2 = <<>> THEN 0
    ELSE RoundDiv(200 * Matching(s1, s2), Len(s1) + Len(s2))

\* lines 835-843: the words of the vendor name that have a similar word in
\* the reference name
significant_matches(hotel_words, ref_words) ==
    Cardinality({i \in 1..Len(hotel_words) :
        /\ Len(hotel_words[i]) > 3
        /\ \E j \in 1..Len(ref_words) :
              Len(ref_words[j]) > 3 /\ fuzz_ratio(hotel_words[i], ref_words[j]) > 80})

\* lines 849-856 for one pair of words, in halves: 2 stands for 1, 1 for 0.5
PairScore(hotel_word, ref_word) ==
    IF Len(hotel_word) > 4 /\ Len(ref_word) > 4
    THEN IF Contains(hotel_word, ref_word) \/ Contains(ref_word, hotel_word) THEN 2
         ELSE IF fuzz_ratio(hotel_word, ref_word) > 70 THEN 1 ELSE 0
    ELSE 0

\* lines 846-856, in halves
RECURSIVE partial_match_score(_, _, _)
partial_match_score(hotel_words, ref_words, n) ==
    IF n = 0 THEN 0
    ELSE PairScore(hotel_words[((n - 1) \div Len(ref_words)) + 1],
                   ref_words[((n - 1) % Len(ref_words)) + 1])
             + partial_match_score(hotel_words, ref_words, n - 1)

NoMatch == [key |-> <<>>, owner |-> UNASSIGNED]

\* lines 827-868 with the partial-match score alone as the score of an item
RECURSIVE ScanReference_PartialScoreOnly(_, _, _, _, _)
ScanReference_PartialScoreOnly(vendor_lower, vendor_reference, i, best, best_score) ==
    IF i > Len(vendor_reference)
    THEN [returned |-> FALSE, column |-> UNASSIGNED, best |-> best, score |-> best_score]
    ELSE LET hotel_words == Words(vendor_lower)
             ref_words == Words(Lower(vendor_reference[i].key))
             sig == significant_matches(hotel_words, ref_words)
             total == partial_match_score(hotel_words, ref_words,
                                          Len(hotel_words) * Len(ref_words))
         IN  IF sig >= 2
             THEN [returned |-> TRUE, column |-> vendor_reference[i].owner,
                   best |-> best, score |-> best_score]
             ELSE IF total > best_score
                  THEN ScanReference_PartialScoreOnly(vendor_lower, vendor_reference, i + 1,
                                                      vendor_reference[i], total)
                  ELSE ScanReference_PartialScoreOnly(vendor_lower, vendor_reference, i + 1,
                                                      best, best_score)

\* lines 827-868: the loop over the items; it returns at the first item with
\* two significant words, else it ends with the best item and its score (in
\* halves)
RECURSIVE ScanReference(_, _, _, _, _)
ScanReference(vendor_lower, vendor_reference, i, best, best_score) ==
    IF i > Len(vendor_reference)
    THEN [returned |-> FALSE, column |-> UNASSIGNED, best |-> best, score |-> best_score]
    ELSE LET hotel_words == Words(vendor_lower)
             ref_words == Words(Lower(vendor_reference[i].key))
             sig == significant_matches(hotel_words, ref_words)
             total == 2 * sig
                        + partial_match_score(hotel_words, ref_words,
                                              Len(hotel_words) * Len(ref_words))
         IN  IF sig >= 2
             THEN [returned |-> TRUE, column |-> vendor_reference[i].owner,
                   best |-> best, score |-> best_score]
             ELSE IF total > best_score
                  THEN ScanReference(vendor_lower, vendor_reference, i + 1,
                                     vendor_reference[i], total)
                  ELSE ScanReference(vendor_lower, vendor_reference, i + 1, best, best_score)

\* utils.full_process of fuzzywuzzy on texts of letters, digits and blanks
full_process(s) == Strip(Lower(s))

\* process.extractOne(query, keys, scorer=fuzz.ratio): the first item of the
\* highest ratio and that ratio
RECURSIVE extractOne(_, _, _, _, _)
extractOne(query, vendor_reference, i, best, best_ratio) ==
    IF i > Len(vendor_reference) THEN [item |-> best, ratio |-> best_ratio]
    ELSE LET r == fuzz_ratio(full_process(query), full_process(vendor_reference[i].key))
         IN  IF r > best_ratio
             THEN extractOne(query, vendor_reference, i + 1, vendor_reference[i], r)
             ELSE extractOne(query, vendor_reference, i + 1, best, best_ratio)

\* no score is good enough
GoodPartialMatch_Never(score) == FALSE

\* line 871: the best score is at least 1.5
GoodPartialMatch(score) == score >= 3

\* lines 822-885: what follows the direct look-up
MatchByWords(vendor_name, vendor_reference) ==
    LET scan == ScanReference(Lower(vendor_name), vendor_reference, 1, NoMatch, 0) IN
    IF scan.returned THEN scan.column
    ELSE IF scan.best # NoMatch /\ GoodPartialMatch(scan.score) THEN scan.best.owner
    ELSE LET best_match == extractOne(vendor_name, vendor_reference, 1, NoMatch, -1)
         IN  IF best_match.item # NoMatch /\ best_match.ratio >= 60
             THEN best_match.item.owner
             ELSE UNASSIGNED

\* find_vendor_column without the look-up of lines 816-820
find_vendor_column_NoDirectMatch(vendor_name, vendor_reference) ==
    IF vendor_name = <<>> \/ vendor_name = UnknownVendor THEN UNASSIGNED
    ELSE MatchByWords(vendor_name, vendor_reference)

find_vendor_column(vendor_name, vendor_reference) ==
    IF vendor_name = <<>> \/ vendor_name = UnknownVendor THEN UNASSIGNED
    ELSE IF DictHas(vendor_reference, Lower(vendor_name))
         THEN DictGet(vendor_reference, Lower(vendor_name))
    ELSE MatchByWords(vendor_name, vendor_reference)

(***************************************************************************)
(* find_matching_column (lines 1686-1721): df.columns is the sequence of   *)
(* the header texts of the sheet; None is returned when no column is found.*)
(***************************************************************************)
\* lines 1660-1664, for a header that is a text
normalize_column_name(col_name) == ReplaceChars(Lower(Strip(col_name)), {"_", "-"}, " ")

\* lines 1703-1711
field_variations ==
    <<
       [key |-> <<"p","a","i","d"," ","o","n">>,
        variations |-> {<<"p","a","i","d">>,
                       <<"p","a","y","m","e","n","t"," ","d","a","t","e">>,
                       <<"d","a","t","e"," ","p","a","i","d">>}],
       [key |-> <<"b","o","o","k","i","n","g"," ","c","o","d","e">>,
        variations |-> {<<"b","o","o","k","i","n","g">>,
                       <<"c","o","d","e">>,
                       <<"b","o","o","k","i","n","g"," ","i","d">>,
                       <<"r","e","f","e","r","e","n","c","e">>,
                       <<"c","o","n","f","i","r","m","a","t","i","o","n">>}],
       [key |-> <<"g","u","e","s","t"," ","n","a","m","e">>,
        variations |-> {<<"g","u","e","s","t">>,
                       <<"n","a","m","e">>,
                       <<"c","u","s","t","o","m","e","r">>}],
       [key |-> <<"h","o","t","e","l"," ","n","a","m","e">>,
        variations |-> {<<"h","o","t","e","l">>,
                       <<"p","r","o","p","e","r","t","y">>,
                       <<"v","e","n","u","e">>}],
       [key |-> <<"c","h","e","c","k","-","i","n"," ","d","a","t","e">>,
        variations |-> {<<"c","h","e","c","k"," ","i","n">>,
                       <<"a","r","r","i","v","a","l">>,
                       <<"c","h","e","c","k","i","n">>}],
       [key |-> <<"c","h","e","c","k","-","o","u","t"," ","d","a","t","e">>,
        variations |-> {<<"c","h","e","c","k"," ","o","u","t">>,
                       <<"d","e","p","a","r","t","u","r","e">>,
                       <<"c","h","e","c","k","o","u","t">>}],
       [key |-> <<"p","a","y","m","e","n","t">>,
        variations |-> {<<"p","a","y","m","e","n","t">>,
                       <<"a","m","o","u","n","t">>,
                       <<"t","o","t","a","l">>,
                       <<"p","a","i","d">>}]
    >>

\* the first of the columns of the sheet whose index is in hits, None when
\* there is none ('for col in df.columns: if ...: return col')
FirstColumn(columns, hits) ==
    IF hits = {} THEN None
    ELSE columns[CHOOSE i \in hits : \A j \in hits : i <= j]

find_matching_column(columns, field_name) ==
    LET normalized_field == normalize_column_name(field_name)
        \* line 1693
        exact == {i \in 1..Len(columns) : normalize_column_name(columns[i]) = normalized_field}
        \* line 1699
        partial == {i \in 1..Len(columns) :
                       \/ Contains(normalized_field, normalize_column_name(columns[i]))
                       \/ Contains(normalize_column_name(columns[i]), normalized_field)}
        \* lines 1715-1718
        variation ==
            {i \in 1..Len(columns) :
                \E k \in 1..Len(field_variations) :
                    /\ Contains(field_variations[k].key, normalized_field)
                    /\ \E v \in field_variations[k].variations :
                          Contains(v, normalize_column_name(columns[i]))}
    IN  IF exact # {} THEN FirstColumn(columns, exact)
        ELSE IF partial # {} THEN FirstColumn(columns, partial)
        ELSE FirstColumn(columns, variation)

(***************************************************************************)
(* The comparison normalizers and the matching of one record against one   *)
(* row, each called on its own.                                            *)
(***************************************************************************)
MaxCodeLen == 3
CodeDigits == {"0", "1", "7"}

CallIdle == call = [fn |-> "none"] /\ result = [done |-> FALSE]

\* the digit strings c of at most MaxCodeLen digits
DigitStrings == SeqsUpTo(CodeDigits, MaxCodeLen) \ {<<>>}
\* c as a spreadsheet can hand it over
WithZero(c) == c \o <<".", "0">>
CodeValues ==
    UNION { {c, WithZero(c), c \o <<".", "0", "0">>, <<"DQ">> \o c \o <<"DQ">>,
             <<" ">> \o c, <<"B", "K">> \o c, <<"-">> \o c} : c \in DigitStrings }
        \cup {NaN, <<>>, Txt.NA}
DateValues == {Txt.d1, Txt.d2, Txt.d1dash, TS_d2, <<" ","1","2"," ","M","a","y"," ","2","0","2","5">>,
               <<"1","2",".","0","5",".","2","0","2","5">>, NaN, <<>>}

\* names per owner column of the userlist sheet
MaxNames == 1
\* columns of a sheet handed to find_matching_column
MaxColumns == 2
\* names of the userlist sheet and names handed to find_vendor_column
N ==
    [ SapphirePalace |-> <<"S","a","p","p","h","i","r","e"," ","P","a","l","a","c","e">>,
      SAPPHIRE_PALACE |-> <<"S","A","P","P","H","I","R","E"," ","P","A","L","A","C","E">>,
      GrandSapphirePalace |-> <<"G","r","a","n","d"," ","S","a","p","p","h","i","r","e"," ","P","a","l","a","c","e">>,
      UnknownPalace |-> <<"U","n","k","n","o","w","n"," ","P","a","l","a","c","e">>,
      HotelSapphire |-> <<"H","o","t","e","l"," ","S","a","p","p","h","i","r","e">>,
      GrandSapphireResort |-> <<"G","r","a","n","d"," ","S","a","p","p","h","i","r","e"," ","R","e","s","o","r","t">>,
      sapphire_palace |-> <<"s","a","p","p","h","i","r","e"," ","p","a","l","a","c","e">>,
      OceanPearl |-> <<"O","c","e","a","n"," ","P","e","a","r","l">>,
      SapphireGrandResidency |-> <<"S","a","p","p","h","i","r","e"," ","G","r","a","n","d"," ","R","e","s","i","d","e","n","c","y">> ]
KnownNames == {N.SapphirePalace, N.SAPPHIRE_PALACE, N.GrandSapphirePalace, N.UnknownPalace,
               N.HotelSapphire, UnknownVendor}
VendorNames == {N.GrandSapphireResort, N.SapphirePalace, N.sapphire_palace, UnknownVendor,
                N.OceanPearl, N.SapphireGrandResidency, <<>>}
Userlists ==
    {[readable |-> r,
      columns |-> <<[col |-> "SANDHYA", vendors |-> a], [col |-> "KUMAR", vendors |-> b]>>] :
        r \in BOOLEAN, a \in SeqsUpTo(KnownNames, MaxNames), b \in SeqsUpTo(KnownNames, MaxNames)}
\* reference maps: those load_vendor_reference builds and those of one item
VendorReferences ==
    {load_vendor_reference(u) : u \in Userlists}
        \cup {<<[key |-> Lower(n), owner |-> "KUMAR"]>> : n \in KnownNames}

InitCalls ==
    /\ call \in {[fn |-> "normalize_booking_code_value", value |-> v] : v \in CodeValues}
              \cup {[fn |-> "normalize_date_for_match", value |-> v] : v \in DateValues}
              \cup {[fn |-> "match", code |-> a, cell |-> b] :
                       a \in CodeValues \ {NaN}, b \in {d \in CodeValues : Len(d) <= 2}}
              \cup {[fn |-> "find_vendor_column", vendor_name |-> v, vendor_reference |-> m] :
                       v \in VendorNames, m \in VendorReferences}
              \cup {[fn |-> "find_matching_column", columns |-> c, field_name |-> f] :
                       c \in SeqsUpTo({Txt.hArrival, Txt.hDeparture, Txt.hProperty, Txt.hCustomer,
                                       Txt.hReference, Txt.hCheckInUnderscore, Txt.hCheckout,
                                       Txt.hHotelName, Txt.hStatus}, MaxColumns),
                       f \in {Txt.hBookingCode, Txt.hGuestName, Txt.hHotelName, Txt.hCheckIn,
                              Txt.hCheckOut}}
              \cup {[fn |-> "normalize_table_header", header_text |-> h] :
                       h \in {Txt.hBookingCode, Txt.hBookingDate, Txt.hBookingID,
                              Txt.hReservationNumber, Txt.hConfirmationNumber,
                              Txt.hConfirmation, Txt.hReference, Txt.hBooking,
                              Txt.hGuestName, Txt.hHotelName, Txt.hCheckIn, Txt.hArrival,
                              Txt.hStatus, Txt.Details, <<>>}}
              \cup {[fn |-> "parse_html_tables_for_booking_data", html_body |-> b] :
                       b \in {[present |-> TRUE, tables |-> <<t>>, unparsable |-> FALSE,
                                fault |-> 0] :
                                  t \in SampleTables \cup
                                        {Tbl.EmptyCell, Tbl.EmptyHeader, Tbl.OneRow, Tbl.Labels,
                                         Tbl.BookingDate, Tbl.HeaderOnly, Tbl.NoLabels}}}
    /\ result = [done |-> FALSE]

CallNormalizeBookingCode ==
    /\ call.fn = "normalize_booking_code_value" /\ ~result.done
    /\ result' = [done |-> TRUE, value |-> normalize_booking_code_value(call.value)]
    /\ UNCHANGED <<evars, mvars, gvars, call>>

CallNormalizeDate ==
    /\ call.fn = "normalize_date_for_match" /\ ~result.done
    /\ result' = [done |-> TRUE, value |-> normalize_date_for_match(call.value)]
    /\ UNCHANGED <<evars, mvars, gvars, call>>

\* lines 2309-2499 for a record that has only a booking code, against a
\* sheet of one row that is not yet marked
CallMatch ==
    /\ call.fn = "match" /\ ~result.done
    /\ LET frame == ReadSheet([has_column |-> TRUE,
                               rows |-> <<Row(call.cell, Txt.AshaRao, Txt.Taj, Txt.d1, Txt.d2, <<>>)>>])
           entry == Entry(call.code, <<>>, <<>>, <<>>, <<>>)
       IN  \E m \in {MatchEntry(frame, entry, MATCHING_FIELDS, "none")} :
           \E u \in {UpdateRows(frame, m.rows, {})} :
               result' = [done |-> TRUE, rows |-> m.rows, table |-> u.table]
    /\ UNCHANGED <<evars, mvars, gvars, call>>

CallFindVendorColumn ==
    /\ call.fn = "find_vendor_column" /\ ~result.done
    /\ result' = [done |-> TRUE,
                  value |-> find_vendor_column(call.vendor_name, call.vendor_reference)]
    /\ UNCHANGED <<evars, mvars, gvars, call>>

CallFindMatchingColumn ==
    /\ call.fn = "find_matching_column" /\ ~result.done
    /\ result' = [done |-> TRUE, value |-> find_matching_column(call.columns, call.field_name)]
    /\ UNCHANGED <<evars, mvars, gvars, call>>

CallNormalizeTableHeader ==
    /\ call.fn = "normalize_table_header" /\ ~result.done
    /\ result' = [done |-> TRUE, value |-> normalize_table_header(call.header_text)]
    /\ UNCHANGED <<evars, mvars, gvars, call>>

CallParseTables ==
    /\ call.fn = "parse_html_tables_for_booking_data" /\ ~result.done
    /\ result' = [done |-> TRUE,
                  value |-> parse_html_tables_for_booking_data(call.html_body, TRUE)]
    /\ UNCHANGED <<evars, mvars, gvars, call>>

NextCalls ==
    \/ CallFindMatchingColumn
    \/ CallNormalizeTableHeader
    \/ CallParseTables
    \/ CallNormalizeBookingCode
    \/ CallFindVendorColumn
    \/ CallNormalizeDate
    \/ CallMatch

(***************************************************************************)
(* process_invoices (lines 1343-1658) with the PDF analysis of             *)
(* extract_comprehensive_email_data (lines 619-724), update_excel_sheet    *)
(* (lines 1023-1341) and the records of match_invoice_data_with_excel      *)
(* (lines 2212-2276).                                                      *)
(***************************************************************************)
MaxEmails == 2
MaxPdfs == 2

\* line 722
PDF_NOT_PROCESSED == <<"P","D","F"," ","c","o","u","l","d","n","SQ","t"," ","b","e"," ","p","r","o","c","e","s","s","e","d">>
NotFound == <<"N","o","t"," ","F","o","u","n","d">>

\* the file name of the PDF under key k of message i (key 0: 'email_content')
Filename(i, k) == <<"m", DigitSeq[i + 1], "p", DigitSeq[k + 1]>>

\* a PDF the oracle could not read is given no sentinel
AnalyzePdf_NoSentinel(k, outcome) ==
    [key |-> k, oracle |-> outcome,
     hotel_name |-> IF outcome = "text" THEN Txt.SeaView ELSE NotFound,
     generated_from_email |-> FALSE]

\* lines 629-724: pdf_data of the attachment under key k; outcome is what
\* the oracle call gave: "text" (a text naming the hotel), "empty", "raises",
\* or "disabled" when no call is made (line 637)
AnalyzePdf(k, outcome) ==
    [key |-> k, oracle |-> outcome,
     hotel_name |-> IF outcome = "text" THEN Txt.SeaView ELSE PDF_NOT_PROCESSED,
     generated_from_email |-> FALSE]

\* lines 1476-1501: pdf_analysis of a message, with the entry made of the
\* booking details of the email when there is no PDF
PdfAnalysis(message, outcomes) ==
    IF message.npdf = 0 /\ message.details
    THEN <<[key |-> 0, oracle |-> "none", hotel_name |-> NotFound,
            generated_from_email |-> TRUE]>>
    ELSE [k \in 1..message.npdf |-> AnalyzePdf(k, outcomes[k])]

\* lines 1546-1575: the keys of the PDFs handed to upload_pdf_to_drive
UploadCalls(pdf_analysis) ==
    {pdf_analysis[k].key : k \in {j \in 1..Len(pdf_analysis) :
        /\ pdf_analysis[j].hotel_name # PDF_NOT_PROCESSED
        /\ ~pdf_analysis[j].generated_from_email}}

\* lines 1188-1193
DesiredColumns ==
    {"S.No", "Processing Date", "Email From", "Email Subject", "Assigned To", "Hotel Name",
     "Guest Name", "Booking Code", "Bill Number", "Bill Date", "Room Number",
     "Number of Guests", "Check-in Date", "Check-out Date", "Total Amount", "GST Number",
     "PDF Filename", "Drive File ID", "Urgency Level"}

\* lines 1047-1172: the rows of one invoice, n rows being there before
RECURSIVE InvoiceRows(_, _, _)
InvoiceRows(invoice, k, n) ==
    IF k > Len(invoice.pdf_analysis) THEN <<>>
    ELSE IF invoice.pdf_analysis[k].hotel_name = PDF_NOT_PROCESSED
         THEN InvoiceRows(invoice, k + 1, n)
    ELSE <<[c \in DesiredColumns |->
              CASE c = "S.No" -> (IF n + 1 < 10 THEN <<DigitSeq[n + 2]>>
                                  ELSE <<DigitSeq[((n + 1) \div 10) + 1],
                                         DigitSeq[((n + 1) % 10) + 1]>>)
                [] c = "Hotel Name" -> invoice.pdf_analysis[k].hotel_name
                [] c = "Booking Code" -> invoice.booking_code
                [] c = "PDF Filename" -> Filename(invoice.email, invoice.pdf_analysis[k].key)
                [] c = "Drive File ID" -> <<>>
                [] OTHER -> NotFound]>>
             \o InvoiceRows(invoice, k + 1, n + 1)

RECURSIVE NewRows(_, _, _)
NewRows(invoice_data_list, i, n) ==
    IF i > Len(invoice_data_list) THEN <<>>
    ELSE LET rows == InvoiceRows(invoice_data_list[i], 1, n)
         IN  rows \o NewRows(invoice_data_list, i + 1, n + Len(rows))

\* lines 1043-1200: the sheet written back: read by pd.read_excel, the new
\* rows appended, the columns of lines 1188-1195 kept, written by to_excel
update_excel_sheet(sheet, invoice_data_list) ==
    LET new_rows == NewRows(invoice_data_list, 1, Len(sheet.rows))
        old(row) == [c \in DesiredColumns |->
                        IF c \in sheet.columns THEN WriteCell(ReadCell(row[c])) ELSE <<>>]
    IN  IF new_rows = <<>> THEN sheet
        ELSE [columns |-> DesiredColumns,
              rows |-> [i \in 1..Len(sheet.rows) |-> old(sheet.rows[i])]
                          \o [i \in 1..Len(new_rows) |-> WriteRow(new_rows[i])]]

\* lines 2212-2276: the records of the invoices, each with the PDF it is
\* made from
RECURSIVE ExtractedRecords(_, _, _)
ExtractedRecords(invoice_data_list, i, k) ==
    IF i > Len(invoice_data_list) THEN <<>>
    ELSE IF k > Len(invoice_data_list[i].pdf_analysis)
         THEN ExtractedRecords(invoice_data_list, i + 1, 1)
    ELSE LET invoice == invoice_data_list[i]
             pdf_data == invoice.pdf_analysis[k]
             code == IF invoice.booking_code # NotFound THEN invoice.booking_code ELSE <<>>
             hotel == IF pdf_data.hotel_name # NotFound THEN pdf_data.hotel_name ELSE <<>>
         IN  (IF pdf_data.hotel_name = PDF_NOT_PROCESSED \/ (code = <<>> /\ hotel = <<>>)
              THEN <<>>
              ELSE <<[src |-> Filename(invoice.email, pdf_data.key),
                      entry |-> Entry(code, <<>>, hotel, <<>>, <<>>)]>>)
                 \o ExtractedRecords(invoice_data_list, i, k + 1)

\* lines 1343-1352: the state a run starts from: the configuration, the
\* unread messages and the master sheet on the drive
InitRun ==
  LET
    \* a message: whether it is an invoice (line 1469), the number of its PDF
    \* attachments, and whether the email gave booking details with a code
    Messages ==
        {[invoice |-> TRUE, npdf |-> n, details |-> d] : n \in 0..MaxPdfs, d \in BOOLEAN}
            \cup {[invoice |-> FALSE, npdf |-> 0, details |-> FALSE]}
    \* ENABLE_GOOGLE_DRIVE_UPLOAD is 'true', what the set-up of the drive gives,
    \* what the connection to the mailbox gives, and openai_extractor.enabled
    Environments ==
        {[upload_enabled |-> u, drive |-> d, imap |-> m, oracle_enabled |-> o] :
            u \in BOOLEAN, d \in {"ok", "auth_failed", "raises"}, m \in {"ok", "fails"},
            o \in BOOLEAN}
    \* master sheets on the drive
    MasterSheets ==
        { [columns |-> {"S.No", "Hotel Name", "Booking Code", "Invoice Received"},
           rows |-> << [c \in {"S.No", "Hotel Name", "Booking Code", "Invoice Received"} |->
                          CASE c = "S.No" -> <<"1">>
                            [] c = "Hotel Name" -> Txt.Taj
                            [] c = "Booking Code" -> Txt.c7654321
                            [] OTHER -> S_Received] >>],
          [columns |-> {"S.No", "Hotel Name", "Booking Code"},
           rows |-> << [c \in {"S.No", "Hotel Name", "Booking Code"} |->
                          CASE c = "S.No" -> <<"1">>
                            [] c = "Hotel Name" -> Txt.Taj
                            [] OTHER -> Txt.NA] >>],
          [columns |-> DesiredColumns, rows |-> <<>>] }
  IN
    /\ env \in Environments
    /\ (~env.upload_enabled) => (env.drive = "ok" /\ env.imap = "ok")
    /\ env.drive # "ok" => env.imap = "ok"
    /\ inbox \in SeqsUpTo(Messages, MaxEmails)
    /\ master \in MasterSheets
    /\ master0 = master
    /\ ppc = "start"
    /\ mail_connected = FALSE
    /\ email_i = 1
    /\ uploaded = {}
    /\ seen = {}
    /\ all_invoice_data = <<>>
    /\ excel_result = "none"
    /\ extracted_data_list = <<>>

RunIdle ==
    /\ env = [upload_enabled |-> FALSE, drive |-> "ok", imap |-> "ok", oracle_enabled |-> FALSE]
    /\ inbox = <<>>
    /\ master = [columns |-> {}, rows |-> <<>>]
    /\ master0 = master
    /\ ppc = "idle"
    /\ mail_connected = FALSE
    /\ email_i = 1
    /\ uploaded = {}
    /\ seen = {}
    /\ all_invoice_data = <<>>
    /\ excel_result = "none"
    /\ extracted_data_list = <<>>

\* lines 1353-1379: the extractor and the drive are set up; the run ends when
\* the upload is not enabled (lines 1374-1376) or the drive cannot be set up
StartRun ==
    /\ ppc = "start"
    /\ ppc' = IF env.upload_enabled /\ env.drive = "ok" THEN "connect" ELSE "returned"
    /\ UNCHANGED <<evars, mvars, pvars, seen, env, inbox, mail_connected, email_i, uploaded,
                   all_invoice_data, master, master0, excel_result, extracted_data_list>>

\* lines 1382-1390
ConnectMailbox ==
    /\ ppc = "connect"
    /\ IF env.imap = "ok"
       THEN mail_connected' = TRUE /\ ppc' = "emails"
       ELSE mail_connected' = FALSE /\ ppc' = "returned"
    /\ UNCHANGED <<evars, mvars, pvars, seen, env, inbox, email_i, uploaded, all_invoice_data,
                   master, master0, excel_result, extracted_data_list>>

\* lines 1444-1609 for one message: an exception leaves the message out; an
\* invoice is analysed, its PDFs are uploaded and its data are kept
ProcessEmail ==
    /\ ppc = "emails"
    /\ email_i <= Len(inbox)
    /\ \E raised \in BOOLEAN :
       \E outcomes \in [1..inbox[email_i].npdf ->
                           IF env.oracle_enabled THEN {"text", "empty", "raises"}
                           ELSE {"disabled"}] :
           IF raised \/ ~inbox[email_i].invoice
           THEN UNCHANGED <<uploaded, all_invoice_data>>
           ELSE LET pdf_analysis == PdfAnalysis(inbox[email_i], outcomes) IN
                /\ uploaded' = uploaded \cup {Filename(email_i, k) : k \in UploadCalls(pdf_analysis)}
                /\ all_invoice_data' =
                       Append(all_invoice_data,
                              [email |-> email_i,
                               booking_code |-> IF inbox[email_i].details THEN Txt.c1234567
                                                ELSE NotFound,
                               pdf_analysis |-> pdf_analysis])
    /\ email_i' = email_i + 1
    /\ UNCHANGED <<evars, mvars, pvars, seen, env, inbox, ppc, mail_connected, master, master0,
                   excel_result, extracted_data_list>>

\* lines 1611-1619: the messages whose data were kept are marked read; an
\* exception of mail.store is printed and the run goes on
MarkRead ==
    /\ ppc = "emails"
    /\ email_i > Len(inbox)
    /\ \E raised \in BOOLEAN :
          seen' = IF raised THEN {}
                  ELSE {all_invoice_data[n].email : n \in 1..Len(all_invoice_data)}
    /\ ppc' = "excel"
    /\ UNCHANGED <<evars, mvars, pvars, env, inbox, mail_connected, email_i, uploaded,
                   all_invoice_data, master, master0, excel_result, extracted_data_list>>

\* lines 1621-1627: the master sheet is updated; the update can fail
\* (lines 1031-1033 and 1339-1341), and nothing is done when no message was
\* an invoice (lines 1636-1637)
UpdateExcel ==
    /\ ppc = "excel"
    /\ IF all_invoice_data = <<>>
       THEN ppc' = "done" /\ UNCHANGED <<master, excel_result>>
       ELSE /\ ppc' = "match"
            /\ \E failed \in BOOLEAN :
                 IF failed THEN excel_result' = "failed" /\ UNCHANGED master
                 ELSE /\ master' = update_excel_sheet(master, all_invoice_data)
                      /\ excel_result' = IF NewRows(all_invoice_data, 1, 0) = <<>>
                                         THEN "no_rows" ELSE "written"
    /\ UNCHANGED <<evars, mvars, pvars, seen, env, inbox, mail_connected, email_i, uploaded,
                   all_invoice_data, master0, extracted_data_list>>

\* lines 1629-1635: the records handed to the matching
BuildRecords ==
    /\ ppc = "match"
    /\ extracted_data_list' = ExtractedRecords(all_invoice_data, 1, 1)
    /\ ppc' = "done"
    /\ UNCHANGED <<evars, mvars, pvars, seen, env, inbox, mail_connected, email_i, uploaded,
                   all_invoice_data, master, master0, excel_result>>

NextRun ==
    \/ StartRun
    \/ ConnectMailbox
    \/ ProcessEmail
    \/ MarkRead
    \/ UpdateExcel
    \/ BuildRecords

\* the master sheet holds a row made from the PDF named f
HasLedgerRow(f) ==
    \E i \in 1..Len(master.rows) :
        /\ "PDF Filename" \in DOMAIN master.rows[i]
        /\ master.rows[i]["PDF Filename"] = f
\* the matching is handed a record made from the PDF named f
HasMatcherRecord(f) ==
    \E i \in 1..Len(extracted_data_list) : extracted_data_list[i].src = f

\* C17: a PDF whose oracle call raised or gave nothing has the hotel name
\* "PDF couldn't be processed", is not handed to the upload, has no row in the
\* master sheet and no record in the matching; its message is still kept with
\* its booking code, and every PDF of the same message that the oracle read is
\* uploaded, has a row once the sheet is written and a record once the records
\* are built.
C17_FailedPdfExcluded ==
    \A n \in 1..Len(all_invoice_data) :
        LET invoice == all_invoice_data[n] IN
        /\ invoice.booking_code =
               (IF inbox[invoice.email].details THEN Txt.c1234567 ELSE NotFound)
        /\ \A k \in 1..Len(invoice.pdf_analysis) :
             LET pdf_data == invoice.pdf_analysis[k]
                 f == Filename(invoice.email, pdf_data.key)
             IN  /\ pdf_data.oracle \in {"empty", "raises"} =>
                       /\ pdf_data.hotel_name = PDF_NOT_PROCESSED
                       /\ f \notin uploaded
                       /\ ~HasLedgerRow(f)
                       /\ ~HasMatcherRecord(f)
                 /\ pdf_data.oracle = "text" =>
                       /\ f \in uploaded
                       /\ excel_result = "written" => HasLedgerRow(f)
                       /\ ppc = "done" => HasMatcherRecord(f)

\* a finished run with a message of two PDFs, one the oracle failed on and
\* one it read, the sheet being written
C17_Witness ==
    /\ ppc = "done"
    /\ excel_result = "written"
    /\ \E n \in 1..Len(all_invoice_data) :
         /\ Len(all_invoice_data[n].pdf_analysis) = 2
         /\ all_invoice_data[n].pdf_analysis[1].oracle = "raises"
         /\ all_invoice_data[n].pdf_analysis[2].oracle = "text"
         /\ inbox[all_invoice_data[n].email].details

\* C18: a run with ENABLE_GOOGLE_DRIVE_UPLOAD not 'true' that has ended has
\* connected to the mailbox and gone through every message.
C18_UploadDisabledStillProcesses ==
    (~env.upload_enabled /\ ppc \in {"returned", "done"}) =>
        (mail_connected /\ email_i > Len(inbox))

\* the columns of the persisted table
PersistedSchema == DesiredColumns \cup {"Invoice Received"}

\* C19: every row the master sheet had before the run is in the sheet after
\* it, with the same value in every column of the persisted table it had,
\* 'Invoice Received' included.
C19_LedgerAppendOnly ==
    ppc # "idle" =>
        \A i \in 1..Len(master0.rows) :
            /\ i <= Len(master.rows)
            /\ \A c \in master0.columns \cap PersistedSchema :
                  /\ c \in master.columns
                  /\ master.rows[i][c] = master0.rows[i][c]

InitE == InitExtract /\ MatchIdle /\ CallIdle /\ RunIdle
\* one call of a normalizer or of the matching of one record
InitC == InitCalls /\ ExtractIdle /\ MatchIdle /\ RunIdle
SpecCalls == InitC /\ [][NextCalls]_vars
SpecExtract == InitE /\ [][NextExtract]_vars

\* up to MaxRuns matcher runs with the same records over one sheet
InitM == InitMatch /\ ExtractIdle /\ CallIdle /\ RunIdle
SpecMatch == InitM /\ [][NextMatch]_vars

\* one run of process_invoices over the unread messages
InitR == InitRun /\ ExtractIdle /\ MatchIdle /\ CallIdle
SpecRun == InitR /\ [][NextRun]_vars

(***************************************************************************)
(* Properties of extract_booking_code_from_email, checked under            *)
(* SpecExtract.                                                            *)
(***************************************************************************)
\* the code stage 1 takes from the parsed table records: the first candidate
\* that cleans to a code the validity test accepts
TableYield ==
    FirstValidCandidate([i \in 1..Len(table_entries) |-> Get(table_entries[i], "booking_code")])

\* the code the scan of the oracle's response would take
OracleYield ==
    IF msg.openai_extractor = "enabled" /\ msg.oracle.kind = "text"
    THEN LET by_pattern == FirstValidCandidate(msg.oracle.patterns)
         IN  IF by_pattern # None THEN by_pattern ELSE FirstValidCandidate(msg.oracle.lines)
    ELSE None

\* the code the fallback scan would take from the combined text
FallbackYield == FallbackScan(msg.fallback).code

InLog(stage) == \E i \in 1..Len(stage_log) : stage_log[i] = stage

\* C1 (cascade precedence): when the call has returned for a message whose
\* tables yield a valid code and whose text would yield a different valid
\* code through the fallback scan, the returned code is the table code and
\* booking_code_source is email_table.
C1_CascadePrecedence ==
    (/\ pc = "done"
     /\ TableYield # None
     /\ FallbackYield # None
     /\ FallbackYield # TableYield)
    => /\ booking_code = TableYield
       /\ Get(booking_details, "booking_code") = TableYield
       /\ Get(booking_details, "booking_code_source") = "email_table"

C1_Witness ==
    /\ pc = "done"
    /\ TableYield # None
    /\ FallbackYield # None
    /\ FallbackYield # TableYield
    /\ msg.openai_extractor = "enabled"
    /\ OracleYield # None
    /\ stage_log = <<"table">>
    /\ booking_code = TableYield

\* C2 (stage gating and finality): the oracle is called only when the tables
\* gave no valid code; the fallback scan runs only when neither the tables
\* nor the oracle gave one; and a step taken while a code is held leaves the
\* code as it is.
C2_StageGating ==
    /\ [](/\ InLog("oracle") => TableYield = None
          /\ InLog("fallback") => (TableYield = None /\ OracleYield = None))
    /\ [][booking_code # None => booking_code' = booking_code]_vars

C2_Witness ==
    /\ pc = "done"
    /\ stage_log = <<"table", "oracle">>
    /\ booking_code = OracleYield
    /\ FallbackYield # None
    /\ FallbackYield # booking_code

\* every candidate text the three stages clean and test
Candidates ==
    {Get(table_entries[i], "booking_code") : i \in 1..Len(table_entries)}
        \cup {msg.oracle.patterns[i] : i \in 1..Len(msg.oracle.patterns)}
        \cup {msg.oracle.lines[i] : i \in 1..Len(msg.oracle.lines)}
        \cup {msg.fallback.patterns[i] : i \in 1..Len(msg.fallback.patterns)}
        \cup {msg.fallback.windows[i] : i \in 1..Len(msg.fallback.windows)}

\* C3 (booking-code invariant): a code that is returned is seven decimal
\* digits and nothing else, and a cleaned candidate without a run of seven
\* digits fails is_valid_booking_code.
C3_SevenDigits ==
    pc = "done" =>
        /\ booking_code # None => (Len(booking_code) = 7 /\ AllDigits(booking_code))
        /\ \A c \in Candidates :
              ~HasDigitRun7(clean_booking_value(c))
                  => ~is_valid_booking_code(clean_booking_value(c))

\* C4 (oracle failure): when the oracle call raised or returned None or an
\* empty text, the fallback scan has still run when the call returns, the
\* returned code is what the fallback scan finds (None when it finds
\* nothing), and every field stage 1 stored is in the returned details with
\* the value stage 1 gave it.
C4_OracleFailure ==
    (/\ pc = "done"
     /\ InLog("oracle")
     /\ msg.oracle.kind \in {"raise", "none"})
    => /\ InLog("fallback")
       /\ booking_code = FallbackYield
       /\ \A k \in DOMAIN stage1_details :
             k \in DOMAIN booking_details /\ booking_details[k] = stage1_details[k]

C4_Witness ==
    /\ pc = "done"
    /\ msg.oracle.kind = "raise"
    /\ stage_log = <<"table", "oracle", "fallback">>
    /\ booking_code # None
    /\ {"guest_name", "property_name"} \subseteq DOMAIN stage1_details
    /\ {"guest_name", "property_name"} \subseteq DOMAIN booking_details

\* C5 (first writer wins): a stored guest_name, client_name, property_name,
\* check_in_date or check_out_date is non-empty, and no step of the call
\* removes it or changes its value.
C5_FirstWriterWins ==
    /\ [](\A k \in DetailKeys \cap DOMAIN booking_details : booking_details[k] # <<>>)
    /\ [][\A k \in DetailKeys \cap DOMAIN booking_details :
             k \in DOMAIN booking_details' /\ booking_details'[k] = booking_details[k]]_vars

\* a later table record has offered another guest than the one stored
C5_Witness ==
    /\ pc = "entries"
    /\ "guest_name" \in DOMAIN booking_details
    /\ \E i \in 2..(entry_idx - 1) :
          /\ Strip(Get(table_entries[i], "guest_name")) # <<>>
          /\ Strip(Get(table_entries[i], "guest_name")) # booking_details["guest_name"]

OtherColumns == {"code", "guest", "hotel", "checkin", "checkout"}

\* C8 (matcher frame condition): whatever runs have been made, the sheet has
\* the rows it had before the first run, in the same order and with the same
\* booking code, guest, hotel and date cells, and inside a run the DataFrame
\* holds these cells as they were read.
C8_FrameCondition ==
    /\ Len(file.rows) = Len(file0.rows)
    /\ \A i \in 1..Len(file0.rows) : \A f \in OtherColumns :
          file.rows[i][f] = file0.rows[i][f]
    /\ mpc = "loop" =>
          /\ Len(df) = Len(file0.rows)
          /\ \A i \in 1..Len(file0.rows) : \A f \in OtherColumns :
                df[i][f] = ReadCell(file0.rows[i][f])

\* the record's booking code is a valid one: seven decimal digits once
\* normalised
HasValidCode(entry) ==
    LET code == normalize_booking_code_value(entry.code)
    IN  Len(code) = 7 /\ AllDigits(code)

\* the record has all four fields of the composite key
HasCompositeKey(entry) ==
    /\ Strip(entry.guest) # <<>> /\ Strip(entry.hotel) # <<>>
    /\ Strip(entry.checkin) # <<>> /\ Strip(entry.checkout) # <<>>

\* C9: a record with neither a valid seven-digit booking code nor all four
\* composite fields matches no row and marks no row.
C9_NoKeyNoMatch ==
    (/\ last.idx > 0
     /\ ~HasValidCode(entries[last.idx])
     /\ ~HasCompositeKey(entries[last.idx]))
    => (last.rows = {} /\ last.updated = {})

\* a name of the record against a cell of a row: equal, or one contains the
\* other, letter case and surrounding blanks aside
NameAgrees(value, cell) ==
    LET v == Lower(Strip(value))
        c == Lower(Strip(Str(cell)))
    IN  v = c \/ Contains(v, c) \/ Contains(c, v)

\* C10 (composite-match soundness): a record without a booking-code match
\* marks a row only if the row agrees with it on guest name, check-in date,
\* check-out date and hotel name together; a record that cannot be matched by
\* the composite key marks nothing; and a row whose hotel name neither equals
\* nor contains nor is contained in the record's is not matched by it.
C10_CompositeSound ==
    /\ last.step \in {"missing_columns", "missing_fields"}
          => (last.rows = {} /\ last.updated = {})
    /\ (mpc = "loop" /\ last.step = "composite") =>
          /\ last.updated \subseteq last.rows
          /\ \A i \in last.rows :
                /\ NameAgrees(entries[last.idx].guest, df[i].guest)
                /\ DateMatches(Strip(entries[last.idx].checkin), df[i].checkin)
                /\ DateMatches(Strip(entries[last.idx].checkout), df[i].checkout)
                /\ NameAgrees(entries[last.idx].hotel, df[i].hotel)
          /\ \A i \in 1..Len(df) :
                ~NameAgrees(entries[last.idx].hotel, df[i].hotel) => i \notin last.rows

\* the composite key has marked one row and left alone a row of the same
\* guest and stay in another hotel
C10_Witness ==
    /\ mpc = "loop"
    /\ last.step = "composite"
    /\ last.updated # {}
    /\ \E j \in 1..Len(df) :
          /\ j \notin last.rows
          /\ df[j].received # INVOICE_RECEIVED_VALUE
          /\ NameAgrees(entries[last.idx].guest, df[j].guest)
          /\ DateMatches(Strip(entries[last.idx].checkin), df[j].checkin)
          /\ DateMatches(Strip(entries[last.idx].checkout), df[j].checkout)
          /\ ~NameAgrees(entries[last.idx].hotel, df[j].hotel)

RECURSIVE OtherTableEntries(_, _, _)
OtherTableEntries(tables, t, failing) ==
    IF t > Len(tables) THEN <<>>
    ELSE (IF t = failing THEN <<>> ELSE TableEntries(tables[t]))
             \o OtherTableEntries(tables, t + 1, failing)

\* C12 (table-extractor failure isolation): no exception leaves
\* parse_html_tables_for_booking_data; when one table fails, the records of
\* the other tables are returned; and a document the parser cannot read gives
\* the empty list.
C12_TableFailureIsolated ==
    /\ pc # "raised"
    /\ (pc # "stage1" /\ msg.html_body.present /\ msg.bs4) =>
          table_entries = IF msg.html_body.unparsable THEN <<>>
                          ELSE OtherTableEntries(msg.html_body.tables, 1, msg.html_body.fault)

(***************************************************************************)
(* Properties of the normalizers, checked under SpecCalls.                 *)
(***************************************************************************)
\* C13 (spreadsheet numeric-artifact tolerance): for every digit string c
\* the booking-code normalizer gives c + '.0' and c the same text, and a
\* record with one of them as its code matches the row whose cell is the
\* other, which is marked 'Received'.
C13_TrailingZeroTolerance ==
    /\ (call.fn = "normalize_booking_code_value" /\ result.done /\ call.value \in DigitStrings) =>
          normalize_booking_code_value(WithZero(call.value)) = result.value
    /\ (call.fn = "match" /\ result.done
            /\ \E c \in DigitStrings : \/ call.code = WithZero(c) /\ call.cell = c
                                       \/ call.code = c /\ call.cell = WithZero(c)) =>
          (result.rows = {1} /\ result.table[1].received = INVOICE_RECEIVED_VALUE)

\* C14 (normalization idempotence): normalizing a normalized booking code
\* gives it back, and so does normalizing each of the two candidate strings of
\* a date.
C14_Idempotent ==
    /\ (call.fn = "normalize_booking_code_value" /\ result.done) =>
          normalize_booking_code_value(result.value) = result.value
    /\ (call.fn = "normalize_date_for_match" /\ result.done) =>
          /\ normalize_date_for_match(result.value[1])[1] = result.value[1]
          /\ normalize_date_for_match(result.value[2])[2] = result.value[2]

(***************************************************************************)
(* Properties of find_vendor_column, checked under SpecCalls.              *)
(***************************************************************************)
\* the items of the map equal to the vendor name but for the case
ExactEntries(vendor_name, vendor_reference) ==
    {i \in 1..Len(vendor_reference) : Lower(vendor_reference[i].key) = Lower(vendor_name)}
\* the map holds every name in its lower-cased form too
HoldsLowerForms(vendor_reference) ==
    \A i \in 1..Len(vendor_reference) :
        DictHas(vendor_reference, Lower(vendor_reference[i].key))
FindVendorDone == call.fn = "find_vendor_column" /\ result.done

\* C15 as stated (exact-match dominance): when the vendor name equals an
\* item of such a map but for the case, the owner of that item is returned.
C15_ExactMatchDominates ==
    (FindVendorDone /\ HoldsLowerForms(call.vendor_reference)) =>
        \A i \in ExactEntries(call.vendor_name, call.vendor_reference) :
            result.value = call.vendor_reference[i].owner

\* C15 as the code has it: for a vendor name other than the sentinel, the
\* owner recorded under the lower-cased name is returned whatever the other
\* items are; it is the owner of every item equal but for the case when
\* these items have one owner.
C15_ExactMatchWins ==
    LET v == call.vendor_name
        m == call.vendor_reference
    IN  (FindVendorDone /\ HoldsLowerForms(m) /\ ExactEntries(v, m) # {} /\ v # UnknownVendor) =>
            /\ result.value = DictGet(m, Lower(v))
            /\ (\A i, j \in ExactEntries(v, m) : m[i].owner = m[j].owner) =>
                  \A i \in ExactEntries(v, m) : result.value = m[i].owner

\* an exact match whose owner is not the one the word scores would give
C15_Witness ==
    /\ FindVendorDone /\ HoldsLowerForms(call.vendor_reference)
    /\ ExactEntries(call.vendor_name, call.vendor_reference) # {}
    /\ call.vendor_name # UnknownVendor
    /\ result.value # MatchByWords(call.vendor_name, call.vendor_reference)

WordSet(s) == {Words(Lower(s))[i] : i \in 1..Len(Words(Lower(s)))}
\* the identical words longer than 4 characters
SharedWords(vendor_name, ref_name) ==
    {w \in WordSet(vendor_name) \cap WordSet(ref_name) : Len(w) > 4}
\* the two words count in one of the scores of lines 835-856
Similar(hotel_word, ref_word) ==
    \/ Len(hotel_word) > 3 /\ Len(ref_word) > 3 /\ fuzz_ratio(hotel_word, ref_word) > 80
    \/ PairScore(hotel_word, ref_word) > 0
\* one shared word and no other pair of similar words
ScenarioC(vendor_name, vendor_reference) ==
    /\ Len(vendor_reference) = 1
    /\ Cardinality(SharedWords(vendor_name, vendor_reference[1].key)) = 1
    /\ \A hw \in WordSet(vendor_name), rw \in WordSet(vendor_reference[1].key) :
          hw # rw => ~Similar(hw, rw)

\* C16 as stated (scenario C generalized): with a map of one item that
\* shares exactly one identical word longer than 4 characters with the vendor
\* name, and no other similar pair of words, the owner of the item is returned.
C16_SharedWordResolves ==
    (FindVendorDone /\ ScenarioC(call.vendor_name, call.vendor_reference)) =>
        result.value = call.vendor_reference[1].owner

\* C16 as the code has it: the same for a vendor name other than the
\* sentinel 'Unknown Vendor'.
C16_SharedWordResolvesNamed ==
    (FindVendorDone /\ ScenarioC(call.vendor_name, call.vendor_reference)
        /\ call.vendor_name # UnknownVendor) =>
        result.value = call.vendor_reference[1].owner

C16_Witness ==
    /\ FindVendorDone /\ ScenarioC(call.vendor_name, call.vendor_reference)
    /\ call.vendor_name = N.GrandSapphireResort
    /\ call.vendor_reference = <<[key |-> N.sapphire_palace, owner |-> "KUMAR"]>>
    /\ result.value = "KUMAR"

(***************************************************************************)
(* The two steps of the matching, checked under SpecMatch.                 *)
(***************************************************************************)
\* the rows whose normalized booking code is that of the record just matched
LastPrimaryRows == PrimaryRows(df, entries[last.idx], field_to_column)

AgreesOnCompositeKey(i) ==
    /\ NameAgrees(entries[last.idx].guest, df[i].guest)
    /\ DateMatches(Strip(entries[last.idx].checkin), df[i].checkin)
    /\ DateMatches(Strip(entries[last.idx].checkout), df[i].checkout)
    /\ NameAgrees(entries[last.idx].hotel, df[i].hotel)

\* C21 (composite-match completeness): when a record with all four
\* composite fields has no booking-code match and nothing fails, every row
\* whose guest name and hotel name equal the record's or contain it or are
\* contained in it, and whose two dates match the record's, is matched and
\* is marked Received.
C21_CompositeComplete ==
    (mpc = "loop" /\ last.step = "composite" /\ last.fault = NoFault) =>
        \A i \in 1..Len(df) :
            AgreesOnCompositeKey(i) => (i \in last.rows /\ AlreadyReceived(df[i]))

\* C27 (row-local composite matching): a row is matched by a record under
\* the composite key exactly when it is matched by it in the table that
\* holds this row alone.
C27_RowLocal ==
    (mpc = "loop" /\ last.step = "composite" /\ last.fault = NoFault) =>
        \A i \in 1..Len(df) :
            (i \in last.rows) <=> (CompositeRows(<<df[i]>>, entries[last.idx]) # {})

(***************************************************************************)
(* Properties of the table extractor, checked under SpecCalls.             *)
(***************************************************************************)
ParseDone == call.fn = "parse_html_tables_for_booking_data" /\ result.done
\* the rows of the parsed table that hold text, and the fields of its header
ParsedRows == TextRows(call.html_body.tables[1])
HeaderResolves ==
    \E j \in 1..Len(ParsedRows[1]) : normalize_table_header(ParsedRows[1][j]) # "None"
\* the rows of two cells whose label resolves to a field
LabelRows ==
    {r \in 1..Len(ParsedRows) :
        Len(ParsedRows[r]) = 2 /\ normalize_table_header(ParsedRows[r][1]) # "None"}
\* some record maps the field of every label to the label's paired value
EveryLabelPaired ==
    IF LabelRows = {} THEN result.value = <<>>
    ELSE /\ Len(result.value) = 1
         /\ DOMAIN result.value[1] = {normalize_table_header(ParsedRows[r][1]) : r \in LabelRows}
         /\ \A r \in LabelRows :
               result.value[1][normalize_table_header(ParsedRows[r][1])] = ParsedRows[r][2]

\* C22 (key/value fallback): a table whose header row resolves to no field,
\* or that has exactly one row beyond the header, yields the record that
\* maps the field of every resolving label of a two-cell row to the paired
\* value.
C22_KeyValueFallback ==
    (ParseDone /\ (~HeaderResolves \/ Len(ParsedRows) = 2)) => EveryLabelPaired

\* C22 as the code has it: a table whose header row resolves to no field
\* yields one record that maps each field to the value paired with the last
\* label resolving to it, and nothing when no label resolves; a table whose
\* header row resolves to a field is never read as label/value pairs: with
\* one more row it yields at most the record of that row, read by column.
C22_KeyValueWhenNoHeaderResolves ==
    /\ (ParseDone /\ ~HeaderResolves) =>
          IF LabelRows = {} THEN result.value = <<>>
          ELSE /\ Len(result.value) = 1
               /\ DOMAIN result.value[1] =
                      {normalize_table_header(ParsedRows[r][1]) : r \in LabelRows}
               /\ \A r \in LabelRows :
                     (\A q \in LabelRows :
                          normalize_table_header(ParsedRows[q][1])
                              = normalize_table_header(ParsedRows[r][1]) => q <= r)
                     => result.value[1][normalize_table_header(ParsedRows[r][1])]
                            = ParsedRows[r][2]
    /\ (ParseDone /\ HeaderResolves /\ Len(ParsedRows) = 2) =>
          \A n \in 1..Len(result.value) : \A k \in DOMAIN result.value[n] :
              \E j \in 1..Len(ParsedRows[1]) :
                  /\ normalize_table_header(ParsedRows[1][j]) = k
                  /\ j <= Len(ParsedRows[2])
                  /\ result.value[n][k] = ParsedRows[2][j]

\* a label/value table with two labels of one field has been parsed
C22_Witness ==
    /\ ParseDone
    /\ ~HeaderResolves
    /\ \E q, r \in LabelRows :
          /\ q < r
          /\ normalize_table_header(ParsedRows[q][1]) = normalize_table_header(ParsedRows[r][1])
    /\ Len(result.value) = 1

\* C23 (header rule for booking_code): a header resolves to booking_code
\* exactly when its normalized text contains one of booking, reservation,
\* confirmation and one of code, id, number, ref.
C23_BookingCodeHeader ==
    (call.fn = "normalize_table_header" /\ result.done) =>
        LET normalized == HeaderText(call.header_text) IN
        (result.value = "booking_code") <=>
            /\ AnyIn({W.booking, W.reservation, W.confirmation}, normalized)
            /\ AnyIn({W.code, W.id, W.number, W.ref}, normalized)

\* C29 (column alignment): in column mode the value recorded for a field in
\* a data row is the text of the cell of that row that stands in the column
\* of a header cell resolving to the field.
C29_ColumnAlignment ==
    LET table == call.html_body.tables[1] IN
    (ParseDone /\ Len(table) > 1
       /\ \E j \in 1..Len(table[1]) : normalize_table_header(table[1][j]) # "None") =>
        \A n \in 1..Len(result.value) :
            \E r \in 2..Len(table) :
                \A k \in DOMAIN result.value[n] :
                    \E j \in 1..Len(table[1]) :
                        /\ normalize_table_header(table[1][j]) = k
                        /\ j <= Len(table[r])
                        /\ result.value[n][k] = Strip(table[r][j])

(***************************************************************************)
(* The partial-match step of find_vendor_column, checked under SpecCalls.  *)
(***************************************************************************)
\* the scores of item i of the map for the vendor name of the call, in
\* halves: the significant words, the partial-match score and their total
SignificantOf(i) ==
    significant_matches(Words(Lower(call.vendor_name)),
                        Words(Lower(call.vendor_reference[i].key)))
PartialOf(i) ==
    partial_match_score(Words(Lower(call.vendor_name)),
                        Words(Lower(call.vendor_reference[i].key)),
                        Len(Words(Lower(call.vendor_name)))
                            * Len(Words(Lower(call.vendor_reference[i].key))))
TotalOf(i) == 2 * SignificantOf(i) + PartialOf(i)
\* the call goes through the whole loop over the items: the name is no
\* sentinel, the map does not hold it, and no item has two significant words
LoopCompleted ==
    /\ FindVendorDone
    /\ call.vendor_name # <<>> /\ call.vendor_name # UnknownVendor
    /\ ~DictHas(call.vendor_reference, Lower(call.vendor_name))
    /\ \A i \in 1..Len(call.vendor_reference) : SignificantOf(i) < 2
\* what the fuzzy match on the full name returns (lines 877-883)
FuzzyStep ==
    LET ratios == [i \in 1..Len(call.vendor_reference) |->
                      fuzz_ratio(full_process(call.vendor_name),
                                 full_process(call.vendor_reference[i].key))]
    IN  IF \E i \in DOMAIN ratios : ratios[i] >= 60
        THEN call.vendor_reference[CHOOSE i \in DOMAIN ratios :
                                      /\ \A j \in DOMAIN ratios : ratios[j] <= ratios[i]
                                      /\ \A j \in 1..(i - 1) : ratios[j] < ratios[i]].owner
        ELSE UNASSIGNED
\* the first item of the highest total
BestItem ==
    CHOOSE i \in 1..Len(call.vendor_reference) :
        /\ \A j \in 1..Len(call.vendor_reference) : TotalOf(j) <= TotalOf(i)
        /\ \A j \in 1..(i - 1) : TotalOf(j) < TotalOf(i)

\* C24 (vendor partial-match threshold): when no item of the map has a
\* partial-match score of at least 1.5 by itself, the partial-match step
\* returns nothing and the result is that of the fuzzy match on the full
\* name: significant words do not count toward the score.
C24_PartialScoreAlone ==
    (LoopCompleted /\ \A i \in 1..Len(call.vendor_reference) : PartialOf(i) < 3) =>
        result.value = FuzzyStep

\* C24 as the code has it: the score of an item is its number of
\* significant words plus its partial-match score; the owner of the first
\* item of the highest score is returned when that score is at least 1.5,
\* and the fuzzy match on the full name decides otherwise.
C24_TotalScore ==
    LoopCompleted =>
        result.value =
            IF call.vendor_reference # <<>> /\ TotalOf(BestItem) >= 3
            THEN call.vendor_reference[BestItem].owner
            ELSE FuzzyStep

\* an owner returned for an item whose partial-match score alone is below
\* 1.5, where the fuzzy match on the full name gives another result
C24_Witness ==
    /\ LoopCompleted
    /\ call.vendor_reference # <<>>
    /\ TotalOf(BestItem) >= 3
    /\ PartialOf(BestItem) < 3
    /\ result.value = call.vendor_reference[BestItem].owner
    /\ result.value # FuzzyStep

(***************************************************************************)
(* Column resolution, checked under SpecCalls.                             *)
(***************************************************************************)
FindColumnDone == call.fn = "find_matching_column" /\ result.done
\* the variations listed for the field of the call
ListedVariations ==
    UNION {field_variations[k].variations :
              k \in {j \in 1..Len(field_variations) :
                        field_variations[j].key = Lower(Strip(call.field_name))}}
\* no header equals the normalized field name, contains it or is contained
\* in it
NoHeaderNamesField ==
    \A i \in 1..Len(call.columns) :
        /\ ~Contains(normalize_column_name(call.field_name), normalize_column_name(call.columns[i]))
        /\ ~Contains(normalize_column_name(call.columns[i]), normalize_column_name(call.field_name))
HeadersWithVariation ==
    {i \in 1..Len(call.columns) :
        \E v \in ListedVariations : Contains(v, normalize_column_name(call.columns[i]))}

\* C25 (column resolution by keyword variation): when no header names the
\* field and some header contains one of the variations listed for the
\* field, find_matching_column returns a column whose header contains one
\* of them.
C25_VariationResolves ==
    (FindColumnDone /\ NoHeaderNamesField /\ HeadersWithVariation # {}) =>
        \E i \in HeadersWithVariation : result.value = call.columns[i]

(***************************************************************************)
(* Properties of a run of process_invoices, checked under SpecRun.         *)
(***************************************************************************)
\* the PDFs of message i that give a row of the master sheet
RowSources(i) ==
    UNION {{Filename(i, all_invoice_data[n].pdf_analysis[k].key) :
               k \in {j \in 1..Len(all_invoice_data[n].pdf_analysis) :
                         all_invoice_data[n].pdf_analysis[j].hotel_name # PDF_NOT_PROCESSED}} :
           n \in {m \in 1..Len(all_invoice_data) : all_invoice_data[m].email = i}}

\* C26 (read-marking follows persistence): a message is marked read only
\* when the rows made from it are in the master sheet; when the update of
\* the sheet has failed no message is marked read.
C26_ReadAfterPersisted ==
    /\ \A i \in seen : \A f \in RowSources(i) : HasLedgerRow(f)
    /\ excel_result = "failed" => seen = {}

\* C30 (no invoice is lost to a failed PDF): every invoice message whose
\* email gave booking details contributes at least one row to append to the
\* master sheet, whatever the oracle gave for its PDFs.
C30_DetailsGiveRow ==
    \A n \in 1..Len(all_invoice_data) :
        inbox[all_invoice_data[n].email].details =>
            InvoiceRows(all_invoice_data[n], 1, 0) # <<>>

(***************************************************************************)
(* The count returned by the matcher, checked under SpecMatch.             *)
(***************************************************************************)
\* C28 (returned count reflects persisted state): a count greater than zero
\* is returned only by a run that has written the table to the sheet.
C28_CountReflectsWrite ==
    ret > 0 => save_result = "saved"

====
